---------------------------- MODULE EngineProofs ----------------------------
(***************************************************************************)
(* The workflow engine and the pipeline engine, for every graph, every     *)
(* order of the calls of clients and every interleaving with the loops.    *)
(*                                                                         *)
(* Workflows: no node of an execution runs twice, no loop works on behind  *)
(* an ended execution or out of reach of cancel_execution, outcomes stand, *)
(* and an execution left alone completes every graph that                  *)
(* validate_workflow passes and no graph with a cycle.  Pipelines: the     *)
(* retry policy is kept, and an outcome is one that the stages earned.     *)
(***************************************************************************)
EXTENDS WorkflowEngine, PipelineEngine, Recursion, FiniteSetTheorems, TLAPS

(***************************************************************************)
(* Workflows: nodes, loops and outcomes                                    *)
(***************************************************************************)
\* The awaits before the loop has stored an outcome.
Working == {"new", "started", "sleep", "begun", "node", "noded"}

\* A loop at work knows every node that was executed, rs counting them:
\* completed in its own copy, or the one it awaits.
Knows(l, rs) ==
  /\ l.pc # "new" => l.e.status = "running"
  /\ l.pc = "begun" => l.node \notin l.e.completed
  /\ \A n \in Nodes : rs[n] > 0 => n \in l.e.completed \/ (l.pc = "node" /\ n = l.node)

\* The execution e knows them: as completed, or as the gate to be approved.
Known(e, rs) ==
  \A n \in Nodes : rs[n] > 0 =>
    n \in e.completed \/ (e.status = "awaiting_approval" /\ n = e.pending)

\* The status s of an execution while its loop i, with locals l, is alive.
Fits(i, l, s) ==
  /\ l.pc \in Working => s \in {"running", "paused"} \/ (l.pc = "new" /\ s = "pending")
  /\ l.pc = "ending" => s # "cancelled"
  /\ l.cancelled => /\ s \notin {"pending", "completed"}
                    /\ \E c \in cancellers : c.x = l.x /\ c.loop = i

\* Two loops of one execution live together only after an overlapping resume.
OneLoop ==
  \A i, j \in DOMAIN loops :
    Live(i) /\ Live(j) /\ loops[i].x = loops[j].x /\ loops[i].x \notin overlapped => i = j

\* A loop that works on a node has one.
NodeChosen ==
  \A i \in DOMAIN loops : loops[i].pc \in {"begun", "node", "noded"} => loops[i].node \in Nodes

\* Every loop at work knows what was executed, unless a resume overlapped it.
LoopKnows ==
  \A i \in DOMAIN loops :
    loops[i].pc \in Working /\ loops[i].x \notin overlapped => Knows(loops[i], runs[loops[i].x])

\* A loop of x is alive that will store its own copy.
Covered(x) ==
  \E i \in DOMAIN loops : loops[i].x = x /\ loops[i].pc \in Working \ {"new"}

\* The executed nodes are known where resume_execution may read them.
StoreKnows ==
  \A x \in DOMAIN execs \ overlapped :
    execs[x].status \notin Final /\ ~Covered(x) => Known(execs[x], runs[x])

\* The stored status of an execution is one that its live loop allows.
StatusFits ==
  \A i \in DOMAIN loops :
    Live(i) /\ loops[i].x \notin overlapped \union misled
      => Fits(i, loops[i], execs[loops[i].x].status)

\* An entry in _execution_tasks is a loop of the execution, alive or cancelled
\* before it ran.
TaskOwn == \A x \in DOMAIN execs : task[x] # 0 => loops[task[x]].x = x
\* An entry that is not a live loop belongs to an execution that has not
\* ended.
TaskFits ==
  \A x \in DOMAIN execs \ (overlapped \union misled) :
    task[x] # 0 => Live(task[x]) \/ execs[x].status \in {"pending", "running", "paused"}

\* No node of an execution that is not created yet was executed.
Unborn == \A x \in 1..MaxExecs : x \notin DOMAIN execs => \A n \in Nodes : runs[x][n] = 0

\* The inductive invariant: what the loops and the store know about the
\* executed nodes, and which status and which task go with which loop.
IInv ==
  /\ TypeOK /\ Unborn /\ OneLoop /\ NodeChosen /\ LoopKnows /\ StoreKnows /\ StatusFits
  /\ TaskOwn /\ TaskFits /\ NodesRunOnce /\ LoopsAreReachable

----------------------------------------------------------------------------
\* One element of a sequence is replaced.
LEMMA SeqStored ==
  ASSUME NEW S, NEW s \in Seq(S), NEW k \in DOMAIN s, NEW v \in S
  PROVE  LET t == [s EXCEPT ![k] = v] IN
         /\ t \in Seq(S) /\ Len(t) = Len(s) /\ DOMAIN t = DOMAIN s
         /\ t[k] = v /\ \A i \in DOMAIN s \ {k} : t[i] = s[i]
OBVIOUS

\* Executions and loops are of their types.
LEMMA KnownTypes ==
  ASSUME TypeOK
  PROVE  /\ Len(execs) \in Nat /\ DOMAIN execs = 1..Len(execs) /\ DOMAIN execs \subseteq 1..MaxExecs
         /\ Len(loops) \in Nat /\ DOMAIN loops = 1..Len(loops) /\ DOMAIN loops \subseteq 1..MaxLoops
         /\ \A x \in DOMAIN execs : execs[x] \in Execution
         /\ \A i \in DOMAIN loops : loops[i] \in Loop /\ loops[i].x \in DOMAIN execs
         /\ MaxExecs \in Nat /\ MaxLoops \in Nat
<1>1. MaxExecs \in Nat /\ MaxLoops \in Nat
  BY WorkflowAssumption
<1>2. execs \in Seq(Execution) /\ Len(execs) <= MaxExecs
  BY DEF TypeOK
<1>3. loops \in Seq(Loop) /\ Len(loops) <= MaxLoops /\ \A i \in DOMAIN loops : loops[i].x \in DOMAIN execs
  BY DEF TypeOK
<1>4. /\ Len(execs) \in Nat /\ DOMAIN execs = 1..Len(execs) /\ DOMAIN execs \subseteq 1..MaxExecs
      /\ \A x \in DOMAIN execs : execs[x] \in Execution
  BY <1>1, <1>2
<1>5. /\ Len(loops) \in Nat /\ DOMAIN loops = 1..Len(loops) /\ DOMAIN loops \subseteq 1..MaxLoops
      /\ \A i \in DOMAIN loops : loops[i] \in Loop /\ loops[i].x \in DOMAIN execs
  BY <1>1, <1>3
<1> QED
  BY <1>1, <1>4, <1>5

\* The fields of a loop.
LEMMA LoopFields ==
  ASSUME NEW l \in Loop
  PROVE  /\ l.x \in 1..MaxExecs /\ l.e \in Execution /\ l.edges \in Graphs /\ l.ready \subseteq Ids
         /\ l.mine \subseteq Nodes /\ l.node \in Nodes \union {None} /\ l.pc \in PC
         /\ l.cancelled \in BOOLEAN
BY DEF Loop

\* What the operations of WorkflowExecution return.
LEMMA Copies ==
  ASSUME NEW e \in Execution, NEW n \in Nodes, NEW ns \in SUBSET Nodes, NEW b \in BOOLEAN
  PROVE  /\ StartE(e) \in Execution /\ StartE(e).status = "running" /\ StartE(e).completed = e.completed
         /\ PauseE(e) \in Execution /\ PauseE(e).status = "paused" /\ PauseE(e).completed = e.completed
         /\ CompleteNode(e, n) \in Execution /\ CompleteNode(e, n).status = e.status
         /\ CompleteNode(e, n).completed = e.completed \union {n}
         /\ RequestApproval(e, n) \in Execution /\ RequestApproval(e, n).status = "awaiting_approval"
         /\ RequestApproval(e, n).completed = e.completed /\ RequestApproval(e, n).pending = n
         /\ DecideApproval(e, n, b) \in Execution
         /\ DecideApproval(e, n, b).status \in {"running", "failed"}
         /\ DecideApproval(e, n, b).status = "running"
              => DecideApproval(e, n, b).completed = e.completed \union {n}
BY DEF Execution, Status, Final, StartE, PauseE, CompleteNode, RequestApproval, DecideApproval

\* The three outcomes of an execution.
LEMMA Outcomes ==
  ASSUME NEW e \in Execution, NEW ns \in SUBSET Nodes
  PROVE  /\ CompleteE(e) \in Execution /\ CompleteE(e).status = "completed"
         /\ FailE(e, ns) \in Execution /\ FailE(e, ns).status = "failed"
         /\ CancelE(e) \in Execution /\ CancelE(e).status = "cancelled"
BY DEF Execution, Status, Final, CompleteE, FailE, CancelE

\* A new execution is pending, with nothing completed.
LEMMA NewCopies ==
  ASSUME NEW from \in Points
  PROVE  /\ NewExecution(from) \in Execution /\ NewExecution(from).status = "pending"
         /\ NewExecution(from).completed = {}
BY DEF Execution, Status, Final, NewExecution

\* A live loop changes its locals to r, its execution to e and the counts of
\* its execution to row; it keeps its task, or ends and removes it.
LEMMA LoopMoves ==
  ASSUME IInv, NEW i \in DOMAIN loops, Live(i),
         NEW r \in Loop, NEW e \in Execution, NEW row \in [Nodes -> Nat],
         r.x = loops[i].x, r.pc \in {"begun", "node", "noded"} => r.node \in Nodes,
         loops' = [loops EXCEPT ![i] = r],
         execs' = [execs EXCEPT ![r.x] = e],
         runs' = [runs EXCEPT ![r.x] = row],
         UNCHANGED <<workflow, cancellers, resumed, overlapped, misled>>,
         \/ /\ UNCHANGED task
            /\ \/ r.pc \notin {"done", "dead"} \/ r.x \in overlapped \union misled
               \/ e.status \in {"pending", "running", "paused"}
         \/ task' = [task EXCEPT ![r.x] = 0] /\ r.pc \in {"done", "dead"},
         r.x \notin overlapped =>
           /\ r.pc \in Working => Knows(r, row)
           /\ e.status \notin Final /\ r.pc \notin Working \ {"new"} => Known(e, row)
           /\ \A n \in Nodes : row[n] <= 1,
         r.x \notin overlapped \union misled /\ r.pc \notin {"done", "dead"} => Fits(i, r, e.status)
  PROVE  IInv'
<1> DEFINE x == r.x
<1>1. /\ TypeOK /\ Len(execs) \in Nat /\ DOMAIN execs = 1..Len(execs) /\ DOMAIN execs \subseteq 1..MaxExecs
      /\ Len(loops) \in Nat /\ DOMAIN loops = 1..Len(loops)
      /\ \A y \in DOMAIN execs : execs[y] \in Execution
      /\ \A j \in DOMAIN loops : loops[j] \in Loop /\ loops[j].x \in DOMAIN execs
      /\ x \in DOMAIN execs
  BY KnownTypes DEF IInv
<1>2. /\ execs \in Seq(Execution) /\ loops \in Seq(Loop)
      /\ runs \in [1..MaxExecs -> [Nodes -> Nat]] /\ task \in [1..MaxExecs -> 0..MaxLoops]
  BY <1>1 DEF TypeOK
<1>3. /\ execs' \in Seq(Execution) /\ Len(execs') = Len(execs) /\ DOMAIN execs' = DOMAIN execs
      /\ execs'[x] = e /\ \A y \in DOMAIN execs \ {x} : execs'[y] = execs[y]
  BY <1>1, <1>2
<1>4. /\ loops' \in Seq(Loop) /\ Len(loops') = Len(loops) /\ DOMAIN loops' = DOMAIN loops
      /\ loops'[i] = r /\ \A j \in DOMAIN loops \ {i} : loops'[j] = loops[j]
  BY <1>1, <1>2
<1>5. /\ runs' \in [1..MaxExecs -> [Nodes -> Nat]]
      /\ runs'[x] = row /\ \A y \in 1..MaxExecs \ {x} : runs'[y] = runs[y]
  BY <1>1, <1>2
<1>6. /\ task' \in [1..MaxExecs -> 0..MaxLoops] /\ \A y \in 1..MaxExecs \ {x} : task'[y] = task[y]
      /\ \A y \in 1..MaxExecs : task'[y] = task[y] \/ task'[y] = 0
  <2>1. 0 \in 0..MaxLoops
    BY WorkflowAssumption
  <2> QED
    BY <1>1, <1>2, <2>1
<1>7. /\ \A j \in DOMAIN loops : loops'[j].x = loops[j].x
      /\ \A j \in DOMAIN loops \ {i} : Live(j)' <=> Live(j)
  BY <1>4 DEF Live
<1>8. \A j \in DOMAIN loops : loops[j].x = x /\ x \notin overlapped /\ j # i => ~Live(j)
  BY DEF IInv, OneLoop
<1> HIDE DEF x
<1>9. TypeOK'
  <2>1. \A j \in DOMAIN loops' : loops'[j].x \in DOMAIN execs'
    BY <1>1, <1>3, <1>4, <1>7
  <2>2. \A y \in DOMAIN task' : task'[y] <= Len(loops')
    BY <1>1, <1>2, <1>4, <1>6 DEF TypeOK
  <2> QED
    BY <1>1, <1>3, <1>4, <1>5, <1>6, <2>1, <2>2 DEF TypeOK
<1>10. Unborn'
  BY <1>1, <1>3, <1>5 DEF IInv, Unborn
<1>11. OneLoop'
  BY <1>4, <1>7 DEF IInv, OneLoop
<1>12. NodeChosen'
  BY <1>4 DEF IInv, NodeChosen
<1>13. LoopKnows'
  <2> SUFFICES ASSUME NEW j \in DOMAIN loops, loops'[j].pc \in Working, loops'[j].x \notin overlapped
               PROVE  Knows(loops'[j], runs'[loops'[j].x])
    BY <1>4 DEF LoopKnows, Knows
  <2>1. CASE j = i
    BY <1>4, <1>5, <2>1 DEF x
  <2>2. CASE j # i
    <3>1. loops'[j] = loops[j] /\ Live(j)
      BY <1>4, <2>2 DEF Working, Live
    <3>2. loops[j].x # x
      BY <1>8, <2>2, <3>1
    <3>3. runs'[loops[j].x] = runs[loops[j].x]
      BY <1>1, <1>5, <3>2
    <3> QED
      BY <3>1, <3>3 DEF IInv, LoopKnows
  <2> QED
    BY <2>1, <2>2
<1>14. StoreKnows'
  <2> SUFFICES ASSUME NEW y \in DOMAIN execs \ overlapped, execs'[y].status \notin Final, ~Covered(y)'
               PROVE  Known(execs'[y], runs'[y])
    BY <1>3 DEF StoreKnows, Known
  <2>1. CASE y = x
    <3>1. r.pc \notin Working \ {"new"}
      BY <1>4, <2>1 DEF Covered, x
    <3> QED
      BY <1>3, <1>5, <2>1, <3>1 DEF x
  <2>2. CASE y # x
    <3>1. execs'[y] = execs[y] /\ runs'[y] = runs[y]
      BY <1>1, <1>3, <1>5, <2>2
    <3>2. ~Covered(y)
      BY <1>4, <2>2 DEF Covered, x
    <3> QED
      BY <3>1, <3>2 DEF IInv, StoreKnows
  <2> QED
    BY <2>1, <2>2
<1>15. StatusFits'
  <2> SUFFICES ASSUME NEW j \in DOMAIN loops, Live(j)', loops'[j].x \notin overlapped \union misled
               PROVE  Fits(j, loops[j], execs[loops[j].x].status)'
    BY <1>4 DEF StatusFits
  <2>1. CASE j = i
    BY <1>3, <1>4, <2>1 DEF x, Live, Fits
  <2>2. CASE j # i
    <3>1. loops'[j] = loops[j] /\ Live(j)
      BY <1>4, <1>7, <2>2
    <3>2. loops[j].x # x
      BY <1>8, <2>2, <3>1
    <3>3. execs'[loops[j].x] = execs[loops[j].x]
      BY <1>1, <1>3, <3>2
    <3>4. Fits(j, loops[j], execs[loops[j].x].status)
      BY <3>1 DEF IInv, StatusFits
    <3> QED
      BY <3>1, <3>3, <3>4 DEF Fits
  <2> QED
    BY <2>1, <2>2
<1>16. TaskOwn'
  <2> SUFFICES ASSUME NEW y \in DOMAIN execs, task'[y] # 0
               PROVE  loops'[task'[y]].x = y
    BY <1>3 DEF TaskOwn
  <2>1. task'[y] = task[y] /\ loops[task[y]].x = y
    BY <1>1, <1>6 DEF IInv, TaskOwn
  <2>2. task[y] \in DOMAIN loops
    BY <1>1, <1>2, <2>1 DEF TypeOK
  <2> QED
    BY <1>7, <2>1, <2>2
<1>17. TaskFits'
  <2> SUFFICES ASSUME NEW y \in DOMAIN execs \ (overlapped \union misled), task'[y] # 0
               PROVE  Live(task[y])' \/ execs'[y].status \in {"pending", "running", "paused"}
    BY <1>1, <1>3, <1>6 DEF TaskFits, Live
  <2>1. /\ task'[y] = task[y] /\ loops[task[y]].x = y /\ task[y] \in DOMAIN loops
        /\ Live(task[y]) \/ execs[y].status \in {"pending", "running", "paused"}
    BY <1>1, <1>2, <1>6 DEF IInv, TaskOwn, TaskFits, TypeOK
  <2>2. CASE y = x
    <3>1. UNCHANGED task
      BY <1>1, <1>2, <2>2 DEF x
    <3>2. r.pc \notin {"done", "dead"} \/ e.status \in {"pending", "running", "paused"}
      BY <1>1, <1>2, <2>2, <3>1 DEF x
    <3>3. task[y] = i
      BY <2>2 DEF IInv, LoopsAreReachable, x
    <3> QED
      BY <1>3, <1>4, <2>2, <3>2, <3>3 DEF Live
  <2>3. CASE y # x
    <3>1. task[y] # i
      BY <2>1, <2>3 DEF x
    <3> QED
      BY <1>3, <1>7, <2>1, <2>3, <3>1
  <2> QED
    BY <2>2, <2>3
<1>18. NodesRunOnce'
  BY <1>1, <1>3, <1>5 DEF IInv, NodesRunOnce, x
<1>19. LoopsAreReachable'
  <2> SUFFICES ASSUME NEW j \in DOMAIN loops, Live(j)', loops[j].x \notin overlapped \union misled
               PROVE  task'[loops[j].x] = j
    BY <1>4, <1>7 DEF LoopsAreReachable
  <2>1. CASE j = i
    <3>1. r.pc \notin {"done", "dead"}
      BY <1>4, <2>1 DEF Live
    <3> QED
      BY <2>1, <3>1 DEF IInv, LoopsAreReachable
  <2>2. CASE j # i
    <3>1. Live(j) /\ task[loops[j].x] = j
      BY <1>7, <2>2 DEF IInv, LoopsAreReachable
    <3>2. loops[j].x # x
      BY <1>8, <2>2, <3>1
    <3> QED
      BY <1>1, <1>6, <3>1, <3>2
  <2> QED
    BY <2>1, <2>2
<1> QED
  BY <1>9, <1>10, <1>11, <1>13, <1>14, <1>15, <1>16, <1>17, <1>18, <1>19, <1>12 DEF IInv

\* A loop that ends keeps its execution.
LEMMA EndedLoop ==
  ASSUME NEW l \in Loop, NEW pc \in PC
  PROVE  /\ Ended(l, pc) \in Loop /\ Ended(l, pc).x = l.x /\ Ended(l, pc).pc = pc
<1>1. l.e \in Execution /\ l.e.from \in Points
  BY DEF Loop, Execution
<1>2. NewExecution(l.e.from) \in Execution
  BY <1>1, NewCopies
<1> QED
  BY <1>2 DEF Ended, Loop

\* What a loop finds when it goes on: the state of its execution in IInv.
LEMMA LoopFinds ==
  ASSUME IInv, NEW i \in DOMAIN loops
  PROVE  LET l == loops[i] IN
         /\ l.pc \in {"begun", "node", "noded"} => l.node \in Nodes
         /\ l \in Loop /\ l.x \in DOMAIN execs /\ l.x \in 1..MaxExecs /\ l.e \in Execution
         /\ execs[l.x] \in Execution /\ execs = [execs EXCEPT ![l.x] = execs[l.x]]
         /\ runs[l.x] \in [Nodes -> Nat] /\ runs = [runs EXCEPT ![l.x] = runs[l.x]]
         /\ l.x \notin overlapped => \A n \in Nodes : runs[l.x][n] <= 1
         /\ l.pc \in Working /\ l.x \notin overlapped => Knows(l, runs[l.x])
         /\ Live(i) /\ l.x \notin overlapped \union misled => Fits(i, l, execs[l.x].status)
<1>1. TypeOK /\ loops[i] \in Loop /\ loops[i].x \in DOMAIN execs /\ DOMAIN execs \subseteq 1..MaxExecs
  BY KnownTypes DEF IInv
<1>2. loops[i].e \in Execution
  BY <1>1 DEF Loop
<1>3. execs \in Seq(Execution) /\ runs \in [1..MaxExecs -> [Nodes -> Nat]]
  BY <1>1 DEF TypeOK
<1>4. /\ execs[loops[i].x] \in Execution
      /\ execs = [execs EXCEPT ![loops[i].x] = execs[loops[i].x]]
  BY <1>1, <1>3
<1>5. /\ runs[loops[i].x] \in [Nodes -> Nat]
      /\ runs = [runs EXCEPT ![loops[i].x] = runs[loops[i].x]]
  BY <1>1, <1>3
<1>6. loops[i].x \notin overlapped => \A n \in Nodes : runs[loops[i].x][n] <= 1
  BY <1>1 DEF IInv, NodesRunOnce
<1>7. loops[i].pc \in Working /\ loops[i].x \notin overlapped => Knows(loops[i], runs[loops[i].x])
  BY DEF IInv, LoopKnows
<1>8. Live(i) /\ loops[i].x \notin overlapped \union misled => Fits(i, loops[i], execs[loops[i].x].status)
  BY DEF IInv, StatusFits
<1>9. loops[i].pc \in {"begun", "node", "noded"} => loops[i].node \in Nodes
  BY DEF IInv, NodeChosen
<1> QED
  BY <1>1, <1>2, <1>4, <1>5, <1>6, <1>7, <1>8, <1>9

\* A loop stores an outcome.
LEMMA OutcomeStored ==
  ASSUME IInv, NEW i \in DOMAIN loops, Live(i),
         NEW l \in Loop, l.x = loops[i].x, ~l.cancelled,
         NEW e \in Execution, NEW pc \in {"ending", "closing"}, Store(i, l, e, pc), LoopFrame,
         e.status \in Final, pc = "ending" => e.status # "cancelled"
  PROVE  IInv'
<1> DEFINE r == [l EXCEPT !.e = e, !.pc = pc]
           row == runs[loops[i].x]
<1>1. pc \in PC /\ pc \notin Working
  BY DEF PC, Working
<1>2. r \in Loop /\ r.x = loops[i].x /\ r.pc = pc /\ r.cancelled = l.cancelled
  BY <1>1 DEF Loop
<1>3. row \in [Nodes -> Nat] /\ runs = [runs EXCEPT ![loops[i].x] = row]
  BY LoopFinds
<1>4. loops[i].x \notin overlapped => \A n \in Nodes : row[n] <= 1
  BY LoopFinds
<1>5. /\ loops' = [loops EXCEPT ![i] = r] /\ execs' = [execs EXCEPT ![loops[i].x] = e]
      /\ UNCHANGED <<workflow, task, cancellers, runs, resumed, overlapped, misled>>
  BY DEF Store, LoopFrame
<1> HIDE DEF r, row
<1>6. Fits(i, r, e.status)
  BY <1>1, <1>2 DEF Fits, Final
<1> QED
  BY <1>1, <1>2, <1>3, <1>4, <1>5, <1>6, LoopMoves

\* A loop stores a running copy and awaits further work.
LEMMA WorkStored ==
  ASSUME IInv, NEW i \in DOMAIN loops, Live(i),
         NEW l \in Loop, l.x = loops[i].x, ~l.cancelled,
         NEW e \in Execution, NEW pc \in {"started", "begun", "noded"}, Store(i, l, e, pc), LoopFrame,
         pc # "started" => l.node \in Nodes,
         loops[i].x \notin overlapped =>
           /\ e.status = "running"
           /\ pc = "begun" => l.node \notin e.completed
           /\ \A n \in Nodes : runs[loops[i].x][n] > 0 => n \in e.completed
  PROVE  IInv'
<1> DEFINE r == [l EXCEPT !.e = e, !.pc = pc]
           row == runs[loops[i].x]
<1>1. pc \in PC /\ pc \in Working \ {"new"}
  BY DEF PC, Working
<1>2. r \in Loop /\ r.x = loops[i].x /\ r.pc = pc /\ r.e = e /\ r.node = l.node /\ r.cancelled = l.cancelled
  BY <1>1 DEF Loop
<1>3. row \in [Nodes -> Nat] /\ runs = [runs EXCEPT ![loops[i].x] = row]
  BY LoopFinds
<1>4. loops[i].x \notin overlapped => \A n \in Nodes : row[n] <= 1
  BY LoopFinds
<1>5. /\ loops' = [loops EXCEPT ![i] = r] /\ execs' = [execs EXCEPT ![loops[i].x] = e]
      /\ UNCHANGED <<workflow, task, cancellers, runs, resumed, overlapped, misled>>
  BY DEF Store, LoopFrame
<1>6. loops[i].x \notin overlapped => \A n \in Nodes : row[n] > 0 => n \in e.completed
  OBVIOUS
<1> HIDE DEF r, row
<1>7. loops[i].x \notin overlapped => Knows(r, row) /\ Fits(i, r, e.status)
  BY <1>1, <1>2, <1>6 DEF Fits, Knows, Working
<1> QED
  BY <1>1, <1>2, <1>3, <1>4, <1>5, <1>7, LoopMoves

\* A loop goes on to another await and stores nothing.
LEMMA NothingStored ==
  ASSUME IInv, NEW i \in DOMAIN loops, loops[i].pc \in Working \ {"new"},
         NEW r \in Loop, r.x = loops[i].x, r.e = loops[i].e, ~r.cancelled, r.pc = "sleep",
         loops' = [loops EXCEPT ![i] = r], UNCHANGED <<execs, task>>, LoopFrame,
         loops[i].pc # "node"
  PROVE  IInv'
<1> DEFINE row == runs[loops[i].x]
           e == execs[loops[i].x]
<1>1. /\ row \in [Nodes -> Nat] /\ runs = [runs EXCEPT ![loops[i].x] = row]
      /\ e \in Execution /\ execs = [execs EXCEPT ![loops[i].x] = e]
  BY LoopFinds
<1>2. /\ loops[i].x \notin overlapped => \A n \in Nodes : row[n] <= 1
      /\ loops[i].x \notin overlapped => Knows(loops[i], row)
  BY LoopFinds
<1>3. Live(i)
  BY DEF Live, Working
<1>4. loops[i].x \notin overlapped \union misled => Fits(i, loops[i], e.status)
  BY <1>3, LoopFinds
<1>5. UNCHANGED <<workflow, task, cancellers, runs, resumed, overlapped, misled>>
  BY DEF LoopFrame
<1>6. r.pc \in Working \ {"new"} /\ r.pc \notin {"done", "dead"}
  BY DEF Working
<1> HIDE DEF row, e
<1>7. loops[i].x \notin overlapped => Knows(r, row)
  BY <1>2, <1>6 DEF Knows
<1>8. loops[i].x \notin overlapped \union misled => Fits(i, r, e.status)
  BY <1>4, <1>6 DEF Fits
<1> QED
  BY <1>1, <1>2, <1>3, <1>5, <1>6, <1>7, <1>8, LoopMoves

\* A turn of the run loop keeps the invariant.
LEMMA TurnKeeps ==
  ASSUME IInv, NEW i \in DOMAIN loops, loops[i].pc \in {"started", "sleep", "noded"},
         NEW l \in Loop, l.x = loops[i].x, l.e = loops[i].e, ~l.cancelled, Turn(i, l), LoopFrame
  PROVE  IInv'
<1>1. Live(i) /\ loops[i].pc \in Working \ {"new"} /\ l.e \in Execution
  BY DEF Live, Working, Loop
<1>2. loops[i].x \notin overlapped => Knows(loops[i], runs[loops[i].x])
  BY <1>1, LoopFinds
<1>3. {} \in SUBSET Nodes
  OBVIOUS
<1>4. CASE Store(i, l, IF l.e.failed # {} THEN FailE(l.e, {}) ELSE CompleteE(l.e), "ending")
  <2> DEFINE e == IF l.e.failed # {} THEN FailE(l.e, {}) ELSE CompleteE(l.e)
  <2>1. e \in Execution /\ e.status \in {"failed", "completed"}
    BY <1>1, <1>3, Outcomes
  <2> HIDE DEF e
  <2>2. e.status \in Final /\ e.status # "cancelled"
    BY <2>1 DEF Final
  <2>3. Store(i, l, e, "ending")
    BY <1>4 DEF e
  <2> QED
    BY <1>1, <2>1, <2>2, <2>3, OutcomeStored
<1>5. CASE Store(i, l, FailE(l.e, {}), "closing")
  <2>1. FailE(l.e, {}) \in Execution /\ FailE(l.e, {}).status \in Final
    BY <1>1, <1>3, Outcomes DEF Final
  <2> QED
    BY <1>1, <1>5, <2>1, OutcomeStored
<1>6. ASSUME NEW n \in Open(l) \intersect Nodes,
             Store(i, [l EXCEPT !.ready = Open(l) \ {n}, !.node = n], l.e, "begun")
      PROVE  IInv'
  <2> DEFINE m == [l EXCEPT !.ready = Open(l) \ {n}, !.node = n]
  <2>1. l.ready \subseteq Ids /\ Open(l) \subseteq Ids /\ n \in Nodes /\ n \notin l.e.completed
    BY DEF Loop, Open
  <2>2. m \in Loop /\ m.x = l.x /\ m.e = l.e /\ m.node = n /\ m.cancelled = l.cancelled
    BY <2>1 DEF Loop
  <2>3. Store(i, m, l.e, "begun")
    BY <1>6
  <2> HIDE DEF m
  <2>4. loops[i].x \notin overlapped =>
          l.e.status = "running" /\ \A k \in Nodes : runs[loops[i].x][k] > 0 => k \in l.e.completed
    BY <1>2 DEF Knows
  <2> QED
    BY <1>1, <2>1, <2>2, <2>3, <2>4, WorkStored
<1>7. CASE /\ loops' = [loops EXCEPT ![i] = [l EXCEPT !.ready = Open(l), !.pc = "sleep"]]
           /\ UNCHANGED <<execs, task>>
  <2> DEFINE m == [l EXCEPT !.ready = Open(l), !.pc = "sleep"]
  <2>1. Open(l) \subseteq Ids /\ "sleep" \in PC
    BY DEF Loop, Open, PC
  <2>2. m \in Loop /\ m.x = l.x /\ m.e = l.e /\ m.cancelled = l.cancelled /\ m.pc = "sleep"
    BY <2>1 DEF Loop
  <2>3. loops' = [loops EXCEPT ![i] = m]
    BY <1>7
  <2> HIDE DEF m
  <2> QED
    BY <1>1, <1>7, <2>2, <2>3, NothingStored
<1> QED
  BY <1>4, <1>5, <1>6, <1>7 DEF Turn

\* A loop ends: in its finally clause, or cancelled before it ran.
LEMMA LoopGone ==
  ASSUME IInv, NEW i \in DOMAIN loops, Live(i), loops[i].pc \notin Working \ {"new"},
         NEW pc \in {"done", "dead"}, loops' = [loops EXCEPT ![i] = Ended(@, pc)],
         UNCHANGED execs, LoopFrame,
         \/ task' = [task EXCEPT ![loops[i].x] = 0]
         \/ UNCHANGED task /\ loops[i].pc = "new"
  PROVE  IInv'
<1> DEFINE l == loops[i]
           r == Ended(l, pc)
           e == execs[l.x]
           row == runs[l.x]
<1>1. pc \in PC /\ pc \notin Working
  BY DEF PC, Working
<1>2. /\ l \in Loop /\ l.x \in DOMAIN execs
      /\ e \in Execution /\ execs = [execs EXCEPT ![l.x] = e]
      /\ row \in [Nodes -> Nat] /\ runs = [runs EXCEPT ![l.x] = row]
      /\ l.x \notin overlapped => \A n \in Nodes : row[n] <= 1
  BY LoopFinds
<1>3. r \in Loop /\ r.x = l.x /\ r.pc = pc
  BY <1>1, <1>2, EndedLoop
<1>4. l.x \notin overlapped => ~Covered(l.x)
  BY DEF IInv, OneLoop, Covered, Live, Working
<1>5. l.x \notin overlapped /\ e.status \notin Final => Known(e, row)
  BY <1>2, <1>4 DEF IInv, StoreKnows
<1>6. l.x \notin overlapped \union misled /\ l.pc = "new" => e.status \in {"pending", "running", "paused"}
  BY LoopFinds DEF Fits, Working
<1>7. /\ loops' = [loops EXCEPT ![i] = r] /\ execs' = [execs EXCEPT ![l.x] = e]
      /\ runs' = [runs EXCEPT ![l.x] = row]
      /\ UNCHANGED <<workflow, cancellers, resumed, overlapped, misled>>
  BY <1>2 DEF LoopFrame
<1> HIDE DEF r, e, row
<1>8. \/ /\ UNCHANGED task
         /\ r.x \in overlapped \union misled \/ e.status \in {"pending", "running", "paused"}
      \/ task' = [task EXCEPT ![r.x] = 0] /\ r.pc \in {"done", "dead"}
  BY <1>3, <1>6
<1>9. r.pc \notin Working /\ r.pc \in {"done", "dead"} /\ r.pc \notin {"begun", "node", "noded"}
  BY <1>1, <1>3
<1>10. r.x \notin overlapped =>
         /\ e.status \notin Final => Known(e, row)
         /\ \A n \in Nodes : row[n] <= 1
  BY <1>2, <1>3, <1>5
<1>11. /\ execs' = [execs EXCEPT ![r.x] = e] /\ runs' = [runs EXCEPT ![r.x] = row]
       /\ r.x = loops[i].x /\ e \in Execution /\ row \in [Nodes -> Nat]
  BY <1>2, <1>3, <1>7
<1>12. /\ r \in Loop /\ loops' = [loops EXCEPT ![i] = r]
       /\ UNCHANGED <<workflow, cancellers, resumed, overlapped, misled>>
  BY <1>3, <1>7
<1> HIDE DEF l
<1> QED
  BY ONLY IInv, Live(i), i \in DOMAIN loops, <1>8, <1>9, <1>10, <1>11, <1>12, LoopMoves

\* So does every step of a loop.
LEMMA LoopStepKeeps ==
  ASSUME IInv, NEW i \in DOMAIN loops, LoopSteps(i)
  PROVE  IInv'
<1> DEFINE l == loops[i]
<1>1. l \in Loop /\ l.e \in Execution /\ l.x \in DOMAIN execs /\ l.edges \subseteq Ids \X Ids
  BY LoopFinds, WorkflowAssumption DEF Loop
<1>2. l.pc \in Working /\ l.x \notin overlapped => Knows(l, runs[l.x])
  BY LoopFinds
<1>3. /\ {} \in SUBSET Nodes /\ l.node \in Nodes \union {None}
      /\ FailE(l.e, {}) \in Execution /\ FailE(l.e, {}).status \in Final
      /\ CancelE(l.e) \in Execution /\ CancelE(l.e).status \in Final
  BY <1>1, LoopFields, Outcomes DEF Final
<1>4. CASE LoopStarts(i)
  <2>1. l.pc = "new" /\ ~l.cancelled /\ Live(i) /\ l.pc \in Working
    BY <1>4 DEF LoopStarts, Resumes, Live, Working
  <2>2. StartE(l.e) \in Execution /\ StartE(l.e).status = "running" /\ StartE(l.e).completed = l.e.completed
    BY <1>1 DEF StartE, Execution, Status
  <2>3. l.x \notin overlapped => \A n \in Nodes : runs[l.x][n] > 0 => n \in StartE(l.e).completed
    BY <1>2, <2>1, <2>2 DEF Knows
  <2> QED
    BY <1>1, <1>4, <2>1, <2>2, <2>3, WorkStored DEF LoopStarts
<1>5. CASE PlanBuilt(i)
  <2> DEFINE m == [l EXCEPT !.ready = StartNodes(l)]
  <2>1. l.pc = "started" /\ ~l.cancelled /\ Turn(i, m) /\ LoopFrame
    BY <1>5 DEF PlanBuilt, Resumes
  <2>2. StartNodes(l) \subseteq Ids
    BY <1>1, WorkflowAssumption DEF StartNodes, Execution
  <2>3. m \in Loop /\ m.x = l.x /\ m.e = l.e /\ m.cancelled = l.cancelled
    BY <1>1, <2>2 DEF Loop
  <2> HIDE DEF m
  <2> QED
    BY <2>1, <2>3, TurnKeeps
<1>6. CASE LooksAgain(i)
  BY <1>1, <1>6, TurnKeeps DEF LooksAgain, Resumes
<1>7. CASE NodeDone(i)
  <2> DEFINE m == [l EXCEPT !.ready = @ \union Released(l), !.mine = @ \union {l.node}]
  <2>1. l.pc = "noded" /\ ~l.cancelled /\ Turn(i, m) /\ LoopFrame
    BY <1>7 DEF NodeDone, Resumes
  <2>2. l.node \in Nodes
    BY <2>1, LoopFinds
  <2>3. Released(l) \subseteq Ids
    BY <1>1 DEF Released, Succs
  <2>4. l.ready \union Released(l) \subseteq Ids /\ l.mine \union {l.node} \subseteq Nodes
    BY <1>1, <2>2, <2>3, LoopFields
  <2>5. m \in Loop /\ m.x = l.x /\ m.e = l.e /\ m.cancelled = l.cancelled
    BY <1>1, <2>4 DEF Loop
  <2> HIDE DEF m
  <2> QED
    BY <2>1, <2>5, TurnKeeps
<1>8. CASE NodeExecutes(i)
  <2>1. l.pc = "begun" /\ ~l.cancelled /\ Live(i) /\ l.pc \in Working /\ l.node \in Nodes
    BY <1>8, LoopFinds DEF NodeExecutes, Resumes, Live, Working
  <2> DEFINE old == runs[l.x]
             row == [old EXCEPT ![l.node] = @ + 1]
  <2>2. old \in [Nodes -> Nat] /\ (l.x \notin overlapped => \A n \in Nodes : old[n] <= 1)
    BY LoopFinds
  <2>3. l.x \notin overlapped => Knows(l, old)
    BY <1>2, <2>1
  <2>4. UNCHANGED <<workflow, cancellers, resumed, overlapped, misled>>
    BY <1>8 DEF NodeExecutes
  <2>5. runs' = [runs EXCEPT ![l.x] = row]
    BY <1>8 DEF NodeExecutes
  <2> HIDE DEF old
  <2>6. /\ row \in [Nodes -> Nat] /\ row[l.node] = old[l.node] + 1
        /\ \A n \in Nodes \ {l.node} : row[n] = old[n]
    BY <2>1, <2>2
  <2>7. l.x \notin overlapped => \A n \in Nodes : row[n] <= 1
    <3>1. l.x \notin overlapped => ~(old[l.node] > 0)
      BY <2>1, <2>3 DEF Knows
    <3> QED
      BY <2>1, <2>2, <2>6, <3>1
  <2>8. l.x \notin overlapped => \A n \in Nodes : row[n] > 0 => n \in l.e.completed \/ n = l.node
    BY <2>1, <2>3, <2>6 DEF Knows
  <2> HIDE DEF row
  <2>9. CASE Store(i, l, RequestApproval(l.e, l.node), "ending")
    <3> DEFINE e == RequestApproval(l.e, l.node)
               r == [l EXCEPT !.e = e, !.pc = "ending"]
    <3>1. /\ e \in Execution /\ e.status = "awaiting_approval" /\ e.completed = l.e.completed
          /\ e.pending = l.node
      BY <1>1, <2>1 DEF RequestApproval, Execution, Status
    <3> HIDE DEF e
    <3>2. "ending" \in PC \ Working
      BY DEF PC, Working
    <3>3. r \in Loop /\ r.x = l.x /\ r.pc = "ending" /\ r.cancelled = l.cancelled
      BY <1>1, <3>1, <3>2 DEF Loop
    <3>4. loops' = [loops EXCEPT ![i] = r] /\ execs' = [execs EXCEPT ![l.x] = e] /\ UNCHANGED task
      BY <2>9 DEF Store, e
    <3> HIDE DEF r
    <3>5. Fits(i, r, e.status)
      BY <2>1, <3>1, <3>2, <3>3 DEF Fits
    <3>6. l.x \notin overlapped => Known(e, row)
      BY <2>8, <3>1 DEF Known
    <3> QED
      BY <2>1, <2>4, <2>5, <2>6, <2>7, <3>1, <3>2, <3>3, <3>4, <3>5, <3>6, LoopMoves
  <2>10. CASE loops' = [loops EXCEPT ![i].pc = "node"] /\ UNCHANGED <<execs, task>>
    <3> DEFINE r == [l EXCEPT !.pc = "node"]
               e == execs[l.x]
    <3>1. "node" \in PC /\ "node" \in Working \ {"new"}
      BY DEF PC, Working
    <3>2. r \in Loop /\ r.x = l.x /\ r.e = l.e /\ r.node = l.node /\ r.pc = "node" /\ r.cancelled = l.cancelled
      BY <1>1, <3>1 DEF Loop
    <3>3. e \in Execution /\ execs = [execs EXCEPT ![l.x] = e]
      BY LoopFinds
    <3>4. l.x \notin overlapped \union misled => Fits(i, l, e.status)
      BY <2>1, LoopFinds
    <3>5. loops' = [loops EXCEPT ![i] = r] /\ execs' = [execs EXCEPT ![l.x] = e] /\ UNCHANGED task
      BY <2>10, <3>3
    <3> HIDE DEF r, e
    <3>6. l.x \notin overlapped \union misled => Fits(i, r, e.status)
      BY <2>1, <3>1, <3>2, <3>4 DEF Fits
    <3>7. l.x \notin overlapped => Knows(r, row)
      BY <2>1, <2>3, <2>8, <3>2 DEF Knows
    <3> QED
      BY <2>1, <2>4, <2>5, <2>6, <2>7, <3>1, <3>2, <3>3, <3>5, <3>6, <3>7, LoopMoves
  <2> QED
    BY <1>8, <2>9, <2>10 DEF NodeExecutes
<1>9. CASE NodeReturns(i)
  <2>1. l.pc = "node" /\ ~l.cancelled /\ Live(i) /\ l.pc \in Working /\ l.node \in Nodes
    BY <1>9, LoopFinds DEF NodeReturns, Resumes, Live, Working
  <2> DEFINE e == CompleteNode(l.e, l.node)
  <2>2. e \in Execution /\ e.status = l.e.status /\ e.completed = l.e.completed \union {l.node}
    BY <1>1, <2>1 DEF CompleteNode, Execution
  <2>3. Store(i, l, e, "noded") /\ LoopFrame
    BY <1>9 DEF NodeReturns
  <2> HIDE DEF e
  <2>4. l.x \notin overlapped =>
          e.status = "running" /\ \A n \in Nodes : runs[l.x][n] > 0 => n \in e.completed
    BY <1>2, <2>1, <2>2 DEF Knows
  <2> QED
    BY <1>1, <2>1, <2>2, <2>3, <2>4, WorkStored
<1>10. CASE NodeRaises(i)
  <2>1. ~l.cancelled /\ Live(i) /\ l.node \in Nodes
    BY <1>10, LoopFinds DEF NodeRaises, Resumes, Live
  <2>2. {l.node} \in SUBSET Nodes
    BY <2>1
  <2>3. FailE(l.e, {l.node}) \in Execution /\ FailE(l.e, {l.node}).status = "failed"
    BY <1>1, <2>2, Outcomes
  <2>4. Store(i, l, FailE(l.e, {l.node}), "ending") /\ LoopFrame
    BY <1>10 DEF NodeRaises
  <2> QED
    BY <1>1, <2>1, <2>3, <2>4, OutcomeStored DEF Final
<1>11. CASE LoopCrashes(i)
  <2>1. ~l.cancelled /\ Live(i) /\ Store(i, l, FailE(l.e, {}), "closing") /\ LoopFrame
    BY <1>11 DEF LoopCrashes, Resumes, Live
  <2> QED
    BY <1>1, <1>3, <2>1, OutcomeStored
<1>12. ASSUME NEW pc \in {"done", "dead"}, loops[i].pc \in {"ending", "closing"}, Finally(i, pc), LoopFrame
       PROVE  IInv'
  BY <1>12, LoopGone DEF Finally, Working, Live
<1>13. CASE LoopEnds(i)
  BY <1>12, <1>13 DEF LoopEnds, Resumes
<1>14. CASE LoopDies(i)
  BY <1>12, <1>14 DEF LoopDies, Resumes
<1>15. CASE LoopCancelled(i)
  <2>1. Live(i) /\ LoopFrame
    BY <1>15 DEF LoopCancelled
  <2>2. CASE l.pc = "new" /\ loops' = [loops EXCEPT ![i] = Ended(@, "done")] /\ UNCHANGED <<execs, task>>
    BY <2>1, <2>2, LoopGone DEF Working
  <2>3. CASE l.pc = "closing" /\ Finally(i, "done")
    BY <1>12, <2>1, <2>3
  <2>4. CASE Store(i, [l EXCEPT !.cancelled = FALSE], CancelE(l.e), "closing")
    <3> DEFINE m == [l EXCEPT !.cancelled = FALSE]
    <3>1. m \in Loop /\ m.x = l.x /\ ~m.cancelled
      BY <1>1 DEF Loop
    <3>2. Store(i, m, CancelE(l.e), "closing")
      BY <2>4
    <3> HIDE DEF m
    <3> QED
      BY <1>3, <2>1, <3>1, <3>2, OutcomeStored
  <2> QED
    BY <1>15, <2>2, <2>3, <2>4 DEF LoopCancelled
<1> QED
  BY <1>4, <1>5, <1>6, <1>7, <1>8, <1>9, <1>10, <1>11, <1>13, <1>14, <1>15 DEF LoopSteps

----------------------------------------------------------------------------
\* A client stores e as the execution x; it may record x as resumed.
LEMMA ExecutionStored ==
  ASSUME IInv, NEW x \in DOMAIN execs, NEW e \in Execution,
         execs' = [execs EXCEPT ![x] = e],
         UNCHANGED <<workflow, loops, task, cancellers, runs, misled>>,
         resumed \subseteq resumed', resumed' \subseteq DOMAIN execs,
         overlapped \subseteq overlapped', overlapped' \subseteq resumed',
         x \notin overlapped' /\ e.status \notin Final =>
           execs[x].status \notin Final /\ (Known(execs[x], runs[x]) => Known(e, runs[x])),
         x \notin overlapped' \union misled =>
           /\ \A i \in DOMAIN loops :
                Live(i) /\ loops[i].x = x /\ Fits(i, loops[i], execs[x].status) => Fits(i, loops[i], e.status)
           /\ task[x] # 0 => Live(task[x]) \/ e.status \in {"pending", "running", "paused"}
  PROVE  IInv'
<1>1. /\ TypeOK /\ DOMAIN execs \subseteq 1..MaxExecs
      /\ \A i \in DOMAIN loops : loops[i] \in Loop /\ loops[i].x \in DOMAIN execs
  BY KnownTypes DEF IInv
<1>2. execs \in Seq(Execution)
  BY <1>1 DEF TypeOK
<1>3. /\ execs' \in Seq(Execution) /\ Len(execs') = Len(execs) /\ DOMAIN execs' = DOMAIN execs
      /\ execs'[x] = e /\ \A y \in DOMAIN execs \ {x} : execs'[y] = execs[y]
  BY <1>2
<1>4. TypeOK'
  BY <1>1, <1>3 DEF TypeOK
<1>5. Unborn' /\ OneLoop' /\ NodeChosen' /\ TaskOwn' /\ LoopKnows'
  BY <1>3 DEF IInv, Unborn, OneLoop, NodeChosen, TaskOwn, LoopKnows, Live
<1>6. StoreKnows'
  <2> SUFFICES ASSUME NEW y \in DOMAIN execs \ overlapped', execs'[y].status \notin Final, ~Covered(y)
               PROVE  Known(execs'[y], runs[y])
    BY <1>3 DEF StoreKnows, Known, Covered
  <2>1. execs[y].status \notin Final => Known(execs[y], runs[y])
    BY DEF IInv, StoreKnows
  <2> QED
    BY <1>3, <2>1
<1>7. StatusFits'
  <2> SUFFICES ASSUME NEW i \in DOMAIN loops, Live(i), loops[i].x \notin overlapped' \union misled
               PROVE  Fits(i, loops[i], execs'[loops[i].x].status)
    BY DEF StatusFits, Live, Fits
  <2>1. Fits(i, loops[i], execs[loops[i].x].status)
    BY DEF IInv, StatusFits
  <2> QED
    BY <1>1, <1>3, <2>1
<1>8. TaskFits'
  BY <1>3 DEF IInv, TaskFits, Live
<1>9. NodesRunOnce'
  BY <1>3 DEF IInv, NodesRunOnce
<1>10. LoopsAreReachable'
  BY DEF IInv, LoopsAreReachable, Live
<1> QED
  BY <1>4, <1>5, <1>6, <1>7, <1>8, <1>9, <1>10 DEF IInv

\* A client creates a loop for x, whose execution is e by now.
LEMMA LoopCreated ==
  ASSUME IInv, NEW x \in 1..MaxExecs, NEW e \in Execution, NEW l \in Loop,
         l.x = x, l.e = e, l.pc = "new", ~l.cancelled,
         Len(loops) < MaxLoops, loops' = Append(loops, l), task' = [task EXCEPT ![x] = Len(loops) + 1],
         execs' \in Seq(Execution), Len(execs') <= MaxExecs, DOMAIN execs' = DOMAIN execs \union {x},
         execs'[x] = e, \A y \in DOMAIN execs \ {x} : execs'[y] = execs[y],
         UNCHANGED <<workflow, cancellers, runs, misled>>,
         resumed \subseteq resumed', resumed' \subseteq DOMAIN execs',
         overlapped \subseteq overlapped', overlapped' \subseteq resumed',
         e.status \in {"pending", "running"},
         x \notin overlapped' =>
           /\ \A i \in DOMAIN loops : Live(i) => loops[i].x # x
           /\ \A n \in Nodes : runs[x][n] > 0 => n \in e.completed
           /\ \A n \in Nodes : runs[x][n] <= 1
  PROVE  IInv'
<1>1. /\ TypeOK /\ DOMAIN execs \subseteq 1..MaxExecs /\ Len(loops) \in Nat /\ DOMAIN loops = 1..Len(loops)
      /\ \A i \in DOMAIN loops : loops[i] \in Loop /\ loops[i].x \in DOMAIN execs
      /\ MaxLoops \in Nat
  BY KnownTypes DEF IInv
<1>2. PICK k \in Nat : k = Len(loops) + 1
  BY <1>1
<1>3. /\ loops \in Seq(Loop) /\ task \in [1..MaxExecs -> 0..MaxLoops]
      /\ \A y \in 1..MaxExecs : task[y] <= Len(loops)
  BY <1>1 DEF TypeOK
<1>4. /\ loops' \in Seq(Loop) /\ Len(loops') = k /\ DOMAIN loops' = DOMAIN loops \union {k}
      /\ loops'[k] = l /\ k \notin DOMAIN loops /\ \A i \in DOMAIN loops : loops'[i] = loops[i]
      /\ k \in 1..MaxLoops /\ k # 0
  BY <1>1, <1>3, <1>2
<1>5. /\ task' \in [1..MaxExecs -> 0..MaxLoops] /\ task'[x] = k
      /\ \A y \in 1..MaxExecs \ {x} : task'[y] = task[y]
      /\ \A y \in 1..MaxExecs : task'[y] <= k
  <2>1. task' = [task EXCEPT ![x] = k] /\ k \in 0..MaxLoops
    BY <1>1, <1>4, <1>2
  <2>2. /\ task' \in [1..MaxExecs -> 0..MaxLoops] /\ task'[x] = k
        /\ \A y \in 1..MaxExecs \ {x} : task'[y] = task[y]
    BY <1>3, <2>1
  <2>3. \A y \in 1..MaxExecs : task[y] <= k /\ k <= k
    <3> TAKE y \in 1..MaxExecs
    <3>1. task[y] \in 0..MaxLoops /\ task[y] <= Len(loops)
      BY <1>3
    <3>2. task[y] \in Int /\ Len(loops) \in Int
      BY <1>1, <3>1
    <3> QED
      BY <1>2, <3>1, <3>2
  <2> QED
    BY <2>2, <2>3
<1>6. \A i \in DOMAIN loops : Live(i)' <=> Live(i)
  BY <1>4 DEF Live
<1>7. x \notin overlapped' => \A i \in DOMAIN loops : loops[i].pc \in Working => loops[i].x # x
  BY DEF Live, Working
<1>8. k \in DOMAIN loops' /\ x \in DOMAIN execs'
  BY <1>4
<1>9. TypeOK'
  BY <1>1, <1>4, <1>5, <1>8 DEF TypeOK
<1>10. Unborn' /\ OneLoop' /\ NodeChosen'
  <2>1. Unborn'
    BY DEF IInv, Unborn
  <2>2. OneLoop'
    BY <1>4, <1>6 DEF IInv, OneLoop
  <2>3. NodeChosen'
    BY <1>4 DEF IInv, NodeChosen
  <2> QED
    BY <2>1, <2>2, <2>3
<1>11. LoopKnows'
  <2> SUFFICES ASSUME NEW i \in DOMAIN loops', loops'[i].pc \in Working, loops'[i].x \notin overlapped'
               PROVE  Knows(loops'[i], runs[loops'[i].x])
    BY DEF LoopKnows, Knows
  <2>1. CASE i = k
    BY <1>4, <2>1 DEF Knows
  <2>2. CASE i # k
    BY <1>4, <2>2 DEF IInv, LoopKnows
  <2> QED
    BY <2>1, <2>2
<1>12. StoreKnows'
  <2> SUFFICES ASSUME NEW y \in DOMAIN execs' \ overlapped', execs'[y].status \notin Final, ~Covered(y)'
               PROVE  Known(execs'[y], runs[y])
    BY DEF StoreKnows, Known
  <2>1. CASE y = x
    BY <2>1 DEF Known
  <2>2. CASE y # x
    <3>1. ~Covered(y) /\ y \in DOMAIN execs \ overlapped /\ execs'[y] = execs[y]
      BY <1>4, <2>2 DEF Covered
    <3> QED
      BY <3>1 DEF IInv, StoreKnows
  <2> QED
    BY <2>1, <2>2
<1>13. StatusFits'
  <2> SUFFICES ASSUME NEW i \in DOMAIN loops', Live(i)', loops'[i].x \notin overlapped' \union misled
               PROVE  Fits(i, loops'[i], execs'[loops'[i].x].status)
    BY DEF StatusFits, Fits
  <2>1. CASE i = k
    BY <1>4, <2>1 DEF Fits
  <2>2. CASE i # k
    <3>1. /\ i \in DOMAIN loops /\ loops'[i] = loops[i] /\ Live(i) /\ loops[i].x # x
          /\ loops[i].x \in DOMAIN execs
      BY <1>1, <1>4, <1>6, <2>2
    <3> QED
      BY <3>1 DEF IInv, StatusFits
  <2> QED
    BY <2>1, <2>2
<1>14. TaskOwn' /\ TaskFits'
  <2>1. \A y \in DOMAIN execs \ {x} : task'[y] = task[y] /\ (task[y] # 0 => task[y] \in DOMAIN loops)
    BY <1>1, <1>3, <1>5
  <2>2. Live(k)'
    BY <1>4 DEF Live
  <2>3. TaskOwn'
    BY <1>4, <1>5, <2>1 DEF IInv, TaskOwn
  <2>4. TaskFits'
    <3> SUFFICES ASSUME NEW y \in DOMAIN execs' \ (overlapped' \union misled), task'[y] # 0, y # x
                 PROVE  loops'[task'[y]].pc \notin {"done", "dead"} \/ execs'[y].status \in {"pending", "running", "paused"}
      BY <1>5, <2>2 DEF TaskFits, Live
    <3>1. Live(task[y]) \/ execs[y].status \in {"pending", "running", "paused"}
      BY <2>1 DEF IInv, TaskFits
    <3> QED
      BY <1>4, <2>1, <3>1 DEF Live
  <2> QED
    BY <2>3, <2>4
<1>15. NodesRunOnce' /\ LoopsAreReachable'
  <2>1. NodesRunOnce'
    BY DEF IInv, NodesRunOnce
  <2>2. LoopsAreReachable'
    BY <1>1, <1>4, <1>5, <1>6 DEF IInv, LoopsAreReachable
  <2> QED
    BY <2>1, <2>2
<1> QED
  BY <1>9, <1>10, <1>11, <1>12, <1>13, <1>14, <1>15 DEF IInv

\* The loop of a launch or resume.
LEMMA NewLoopType ==
  ASSUME TypeOK, Exists, NEW x \in 1..MaxExecs, NEW e \in Execution
  PROVE  /\ NewLoop(x, e) \in Loop /\ NewLoop(x, e).x = x /\ NewLoop(x, e).e = e
         /\ NewLoop(x, e).pc = "new" /\ ~NewLoop(x, e).cancelled
<1>1. workflow.edges \in Graphs
  BY DEF TypeOK, Exists, Absent, Deleted
<1>2. "new" \in PC
  BY DEF PC
<1> QED
  BY <1>1, <1>2 DEF NewLoop, Loop

\* A launch keeps the invariant.
LEMMA LaunchKeeps ==
  ASSUME IInv, Exists, NEW from \in Points, Launch(from)
  PROVE  IInv'
<1> DEFINE e == NewExecution(from)
<1>1. /\ TypeOK /\ Len(execs) \in Nat /\ DOMAIN execs = 1..Len(execs) /\ MaxExecs \in Nat
      /\ \A i \in DOMAIN loops : loops[i].x \in DOMAIN execs
  BY KnownTypes DEF IInv
<1>2. PICK x \in Nat : x = Len(execs) + 1
  BY <1>1
<1>3. /\ x <= MaxExecs /\ Len(loops) < MaxLoops /\ execs' = Append(execs, e)
      /\ loops' = Append(loops, NewLoop(x, e)) /\ task' = [task EXCEPT ![x] = Len(loops) + 1]
      /\ UNCHANGED <<workflow, cancellers, runs, resumed, overlapped, misled>>
  BY <1>2 DEF Launch
<1>4. e \in Execution /\ e.status = "pending"
  BY NewCopies
<1> HIDE DEF e
<1>5. x \in 1..MaxExecs /\ x \notin DOMAIN execs
  BY <1>1, <1>2, <1>3
<1>6. /\ NewLoop(x, e) \in Loop /\ NewLoop(x, e).x = x /\ NewLoop(x, e).e = e
      /\ NewLoop(x, e).pc = "new" /\ ~NewLoop(x, e).cancelled
  BY <1>1, <1>4, <1>5, NewLoopType
<1>7. execs \in Seq(Execution) /\ resumed \subseteq DOMAIN execs /\ overlapped \subseteq resumed
  BY <1>1 DEF TypeOK
<1>8. /\ execs' \in Seq(Execution) /\ Len(execs') <= MaxExecs /\ DOMAIN execs' = DOMAIN execs \union {x}
      /\ execs'[x] = e /\ \A y \in DOMAIN execs \ {x} : execs'[y] = execs[y]
  BY <1>1, <1>2, <1>3, <1>4, <1>7
<1>9. /\ \A i \in DOMAIN loops : Live(i) => loops[i].x # x
      /\ \A n \in Nodes : runs[x][n] = 0
  BY <1>1, <1>5 DEF IInv, Unborn
<1>10. /\ \A n \in Nodes : runs[x][n] > 0 => n \in e.completed
       /\ \A n \in Nodes : runs[x][n] <= 1
  BY <1>9
<1>11. resumed' \subseteq DOMAIN execs' /\ overlapped' \subseteq resumed'
  BY <1>3, <1>7, <1>8
<1> QED
  BY ONLY IInv, <1>3, <1>4, <1>5, <1>6, <1>8, <1>9, <1>10, <1>11, LoopCreated

\* resume() keeps it: a second loop next to a live one is recorded as
\* overlapping.
LEMMA ResumeKeeps ==
  ASSUME IInv, NEW x \in DOMAIN execs, ResumeExecution(x)
  PROVE  IInv'
<1> DEFINE e == StartE(execs[x])
<1>1. /\ TypeOK /\ execs[x] \in Execution /\ DOMAIN execs \subseteq 1..MaxExecs /\ x \in 1..MaxExecs
  BY KnownTypes DEF IInv
<1>2. /\ execs[x].status = "paused" /\ Len(loops) < MaxLoops /\ execs' = [execs EXCEPT ![x] = e]
      /\ resumed' = resumed \union {x}
      /\ overlapped' = overlapped \union {y \in {x} : \E i \in DOMAIN loops : loops[i].x = x /\ Live(i)}
      /\ UNCHANGED <<workflow, cancellers, runs, misled>>
  BY DEF ResumeExecution
<1>3. e \in Execution /\ e.status = "running" /\ e.completed = execs[x].completed
  BY <1>1 DEF StartE, Execution, Status
<1> HIDE DEF e
<1>4. /\ execs \in Seq(Execution) /\ Len(execs) <= MaxExecs
      /\ resumed \subseteq DOMAIN execs /\ overlapped \subseteq resumed
  BY <1>1 DEF TypeOK
<1>5. /\ resumed \subseteq resumed' /\ resumed' \subseteq DOMAIN execs
      /\ overlapped \subseteq overlapped' /\ overlapped' \subseteq resumed'
  BY <1>2, <1>4
<1>6. x \notin overlapped' => \A i \in DOMAIN loops : Live(i) => loops[i].x # x
  BY <1>2
<1>7. x \notin overlapped' => \A n \in Nodes : runs[x][n] > 0 => n \in e.completed
  <2>1. x \notin overlapped' => ~Covered(x)
    BY <1>6 DEF Covered, Live, Working
  <2>2. x \notin overlapped' => Known(execs[x], runs[x])
    BY <1>2, <1>5, <2>1 DEF IInv, StoreKnows, Final
  <2> QED
    BY <1>2, <1>3, <2>2 DEF Known
<1>8. x \notin overlapped' => \A n \in Nodes : runs[x][n] <= 1
  BY <1>5 DEF IInv, NodesRunOnce
<1>9. CASE Exists /\ loops' = Append(loops, NewLoop(x, e)) /\ task' = [task EXCEPT ![x] = Len(loops) + 1]
  <2>1. /\ NewLoop(x, e) \in Loop /\ NewLoop(x, e).x = x /\ NewLoop(x, e).e = e
        /\ NewLoop(x, e).pc = "new" /\ ~NewLoop(x, e).cancelled
    BY <1>1, <1>3, <1>9, NewLoopType
  <2>2. /\ execs' \in Seq(Execution) /\ Len(execs') <= MaxExecs /\ DOMAIN execs' = DOMAIN execs \union {x}
        /\ execs'[x] = e /\ \A y \in DOMAIN execs \ {x} : execs'[y] = execs[y]
    <3>1. /\ execs' \in Seq(Execution) /\ Len(execs') = Len(execs) /\ DOMAIN execs' = DOMAIN execs
          /\ execs'[x] = e /\ \A y \in DOMAIN execs \ {x} : execs'[y] = execs[y]
      BY ONLY <1>2, <1>3, <1>4, x \in DOMAIN execs, SeqStored
    <3> QED
      BY <1>4, <3>1
  <2>3. resumed' \subseteq DOMAIN execs'
    BY <1>5, <2>2
  <2> QED
    BY ONLY IInv, <1>1, <1>2, <1>3, <1>5, <1>6, <1>7, <1>8, <1>9, <2>1, <2>2, <2>3, LoopCreated
<1>10. CASE UNCHANGED <<loops, task>>
  <2>1. x \notin overlapped' => Known(e, runs[x])
    BY <1>7 DEF Known
  <2>2. execs[x].status \notin Final
    BY <1>2 DEF Final
  <2> QED
    BY ONLY IInv, x \in DOMAIN execs, <1>2, <1>3, <1>5, <1>6, <1>10, <2>1, <2>2, ExecutionStored
<1> QED
  BY <1>9, <1>10 DEF ResumeExecution, e

\* cancel_execution marks a task and waits for it.
LEMMA CancelWaits ==
  ASSUME IInv, NEW x \in DOMAIN execs, task[x] # 0,
         execs[x].status \in {"running", "paused", "awaiting_approval"},
         loops' = [loops EXCEPT ![task[x]].cancelled = TRUE],
         cancellers' = cancellers \union {[x |-> x, e |-> execs[x], loop |-> task[x]]},
         UNCHANGED <<workflow, execs, task, runs, resumed, overlapped, misled>>
  PROVE  IInv'
<1>1. /\ TypeOK /\ DOMAIN execs \subseteq 1..MaxExecs /\ execs[x] \in Execution
      /\ Len(loops) \in Nat /\ DOMAIN loops = 1..Len(loops) /\ DOMAIN loops \subseteq 1..MaxLoops
      /\ \A i \in DOMAIN loops : loops[i] \in Loop /\ loops[i].x \in DOMAIN execs
  BY KnownTypes DEF IInv
<1>2. /\ loops \in Seq(Loop) /\ task \in [1..MaxExecs -> 0..MaxLoops]
      /\ \A y \in 1..MaxExecs : task[y] <= Len(loops)
  BY <1>1 DEF TypeOK
<1>3. PICK k \in DOMAIN loops : k = task[x]
  BY <1>1, <1>2
<1>4. PICK r : r = [loops[k] EXCEPT !.cancelled = TRUE]
  OBVIOUS
<1>5. /\ r \in Loop /\ r.x = loops[k].x /\ r.e = loops[k].e /\ r.node = loops[k].node /\ r.pc = loops[k].pc
  BY <1>1, <1>4 DEF Loop
<1>6. loops' = [loops EXCEPT ![k] = r]
  BY <1>3, <1>4
<1>7. /\ loops' \in Seq(Loop) /\ Len(loops') = Len(loops) /\ DOMAIN loops' = DOMAIN loops
      /\ loops'[k] = r /\ \A i \in DOMAIN loops \ {k} : loops'[i] = loops[i]
  BY ONLY <1>2, <1>5, <1>6, k \in DOMAIN loops, SeqStored
<1>8. \A i \in DOMAIN loops : /\ loops'[i].x = loops[i].x /\ loops'[i].e = loops[i].e
                              /\ loops'[i].node = loops[i].node /\ loops'[i].pc = loops[i].pc
  BY <1>5, <1>7
<1>9. loops[k].x = x
  BY <1>3 DEF IInv, TaskOwn
<1>10. PICK c : c = [x |-> x, e |-> execs[x], loop |-> k]
  OBVIOUS
<1>11. /\ c \in [x : 1..MaxExecs, e : Execution, loop : 1..MaxLoops] /\ c.x = x /\ c.loop = k
       /\ cancellers' = cancellers \union {c}
  BY <1>1, <1>3, <1>10
<1>12. TypeOK'
  BY <1>1, <1>7, <1>8, <1>11 DEF TypeOK
<1>13. Unborn' /\ OneLoop' /\ NodeChosen' /\ LoopKnows' /\ NodesRunOnce' /\ LoopsAreReachable'
  BY <1>7, <1>8 DEF IInv, Unborn, OneLoop, NodeChosen, LoopKnows, NodesRunOnce, LoopsAreReachable, Live, Knows
<1>14. TaskOwn' /\ TaskFits'
  <2>1. \A y \in DOMAIN execs : task[y] # 0 => task[y] \in DOMAIN loops
    BY <1>1, <1>2
  <2> QED
    BY <1>8, <2>1 DEF IInv, TaskOwn, TaskFits, Live
<1>15. StoreKnows'
  BY <1>7, <1>8 DEF IInv, StoreKnows, Covered, Known
<1>16. StatusFits'
  <2> SUFFICES ASSUME NEW i \in DOMAIN loops, Live(i), loops[i].x \notin overlapped \union misled
               PROVE  Fits(i, loops[i], execs[loops[i].x].status)'
    BY <1>7, <1>8 DEF StatusFits, Live
  <2>1. Fits(i, loops[i], execs[loops[i].x].status)
    BY DEF IInv, StatusFits
  <2>2. CASE i = k
    BY <1>8, <1>9, <1>11, <2>1, <2>2 DEF Fits
  <2>3. CASE i # k
    BY <1>7, <1>11, <2>1, <2>3 DEF Fits
  <2> QED
    BY <2>2, <2>3
<1> QED
  BY <1>12, <1>13, <1>14, <1>15, <1>16 DEF IInv

\* cancel() keeps it when it returns.
LEMMA CancelReturnKeeps ==
  ASSUME IInv, NEW c \in cancellers, CancelReturns(c)
  PROVE  IInv'
<1>1. /\ TypeOK /\ DOMAIN execs \subseteq 1..MaxExecs
      /\ \A i \in DOMAIN loops : loops[i] \in Loop /\ loops[i].x \in DOMAIN execs
  BY KnownTypes DEF IInv
<1>2. /\ c \in [x : 1..MaxExecs, e : Execution, loop : 1..MaxLoops]
      /\ c.x \in DOMAIN execs /\ c.loop \in DOMAIN loops
  BY <1>1 DEF TypeOK
<1>3. ~Live(c.loop) /\ cancellers' = cancellers \ {c} /\ UNCHANGED <<workflow, loops, runs, resumed, overlapped>>
  BY DEF CancelReturns
<1>4. \A i, s : Live(i) /\ Fits(i, loops[i], s) => Fits(i, loops[i], s)'
  BY <1>3 DEF Fits
<1>5. CASE UNCHANGED <<task, execs, misled>>
  <2>1. TypeOK'
    BY <1>1, <1>3, <1>5 DEF TypeOK
  <2>2. StatusFits'
    BY <1>3, <1>4, <1>5 DEF IInv, StatusFits, Live
  <2>3. Unborn' /\ OneLoop' /\ NodeChosen' /\ LoopKnows' /\ NodesRunOnce' /\ LoopsAreReachable'
    BY <1>3, <1>5 DEF IInv, Unborn, OneLoop, NodeChosen, LoopKnows, NodesRunOnce, LoopsAreReachable, Live, Knows
  <2>4. TaskOwn' /\ TaskFits' /\ StoreKnows'
    BY <1>3, <1>5 DEF IInv, TaskOwn, TaskFits, StoreKnows, Live, Covered, Known
  <2> QED
    BY <2>1, <2>2, <2>3, <2>4 DEF IInv
<1>6. CASE /\ task[c.x] # 0 /\ task' = [task EXCEPT ![c.x] = 0] /\ execs' = [execs EXCEPT ![c.x] = CancelE(c.e)]
           /\ misled' = misled \union {x \in {c.x} : task[x] # c.loop}
  <2>1. PICK x \in DOMAIN execs : x = c.x
    BY <1>2
  <2>2. PICK e \in Execution : e = CancelE(c.e) /\ e.status = "cancelled"
    <3>1. c.e \in Execution
      BY <1>2
    <3> QED
      BY <3>1, Outcomes
  <2>3. execs \in Seq(Execution) /\ task \in [1..MaxExecs -> 0..MaxLoops]
    BY <1>1 DEF TypeOK
  <2>4. execs' = [execs EXCEPT ![x] = e] /\ task' = [task EXCEPT ![x] = 0]
    BY <1>6, <2>1, <2>2
  <2>5. /\ execs' \in Seq(Execution) /\ Len(execs') = Len(execs) /\ DOMAIN execs' = DOMAIN execs
        /\ execs'[x] = e /\ \A y \in DOMAIN execs \ {x} : execs'[y] = execs[y]
    BY ONLY <2>3, <2>4, x \in DOMAIN execs, e \in Execution, SeqStored
  <2>6. /\ task' \in [1..MaxExecs -> 0..MaxLoops] /\ DOMAIN task' = DOMAIN task
        /\ task'[x] = 0 /\ \A y \in 1..MaxExecs \ {x} : task'[y] = task[y]
    <3>1. 0 \in 0..MaxLoops /\ x \in 1..MaxExecs
      BY <1>1, WorkflowAssumption
    <3> QED
      BY <2>3, <2>4, <3>1
  <2>7. /\ misled \subseteq misled' /\ misled' \subseteq misled \union {x}
        /\ x \notin misled' => task[x] = c.loop
    BY <1>6, <2>1
  <2>8. \A i \in DOMAIN loops : Live(i) /\ loops[i].x \notin overlapped \union misled' => loops[i].x # x
    BY <1>3, <2>7 DEF IInv, LoopsAreReachable
  <2>9. TypeOK'
    <3>1. \A y \in DOMAIN task' : task'[y] <= Len(loops)
      <4>1. Len(loops) \in Nat /\ \A y \in 1..MaxExecs : task[y] <= Len(loops)
        BY <1>1, <2>3, KnownTypes DEF TypeOK
      <4>2. DOMAIN task' = 1..MaxExecs /\ 0 <= Len(loops)
        BY <2>6, <4>1
      <4> QED
        BY <2>6, <4>1, <4>2
    <3>2. misled' \subseteq DOMAIN execs
      BY <1>1, <2>7 DEF TypeOK
    <3> QED
      BY <1>1, <1>3, <2>5, <2>6, <3>1, <3>2 DEF TypeOK
  <2>10. StatusFits'
    <3> SUFFICES ASSUME NEW i \in DOMAIN loops, Live(i), loops[i].x \notin overlapped \union misled'
                 PROVE  Fits(i, loops[i], execs[loops[i].x].status)'
      BY <1>3 DEF StatusFits, Live
    <3>1. execs'[loops[i].x] = execs[loops[i].x]
      BY <1>1, <2>5, <2>8
    <3>2. Fits(i, loops[i], execs[loops[i].x].status)
      BY <2>7 DEF IInv, StatusFits
    <3> QED
      BY <1>3, <3>1, <3>2 DEF Fits
  <2>11. LoopsAreReachable'
    BY <1>1, <1>3, <2>6, <2>7, <2>8 DEF IInv, LoopsAreReachable, Live
  <2>12. Unborn' /\ OneLoop' /\ NodeChosen' /\ LoopKnows' /\ NodesRunOnce'
    BY <1>3, <2>5 DEF IInv, Unborn, OneLoop, NodeChosen, LoopKnows, NodesRunOnce, Live, Knows
  <2>13. TaskOwn' /\ TaskFits'
    BY <1>1, <1>3, <2>5, <2>6, <2>7 DEF IInv, TaskOwn, TaskFits, Live
  <2>14. StoreKnows'
    <3>1. e.status \in Final
      BY <2>2 DEF Final
    <3> QED
      BY <1>3, <2>5, <3>1 DEF IInv, StoreKnows, Covered, Known
  <2> QED
    BY <2>9, <2>10, <2>11, <2>12, <2>13, <2>14 DEF IInv
<1> QED
  BY <1>5, <1>6 DEF CancelReturns

\* An approval keeps it.
LEMMA ApproveKeeps ==
  ASSUME IInv, NEW n \in Gates, NEW b \in BOOLEAN, ApproveWorkflow(n, b)
  PROVE  IInv'
<1>1. PICK x \in DOMAIN execs :
        /\ execs[x].status = "awaiting_approval" /\ execs[x].pending = n
        /\ execs' = [execs EXCEPT ![x] = DecideApproval(@, n, b)]
        /\ UNCHANGED <<workflow, loops, task, cancellers, runs, resumed, overlapped, misled>>
  BY DEF ApproveWorkflow
<1>2. /\ TypeOK /\ execs[x] \in Execution /\ n \in Nodes
      /\ resumed \subseteq DOMAIN execs /\ overlapped \subseteq resumed
  BY KnownTypes, WorkflowAssumption DEF IInv, TypeOK
<1> DEFINE e == DecideApproval(execs[x], n, b)
<1>3. /\ e \in Execution /\ e.status \in {"running", "failed"}
      /\ e.status = "running" => e.completed = execs[x].completed \union {n}
  BY <1>2, Copies
<1>4. execs' = [execs EXCEPT ![x] = e]
  BY <1>1
<1> HIDE DEF e
<1>5. execs[x].status \notin Final
  BY <1>1 DEF Final
<1>6. e.status \notin Final => (Known(execs[x], runs[x]) => Known(e, runs[x]))
  BY <1>1, <1>3 DEF Known, Final
<1>7. \A i \in DOMAIN loops : Fits(i, loops[i], execs[x].status) => Fits(i, loops[i], e.status)
  BY <1>1, <1>3 DEF Fits
<1>8. x \notin overlapped \union misled => (task[x] # 0 => Live(task[x]))
  BY <1>1 DEF IInv, TaskFits
<1> QED
  BY ONLY IInv, x \in DOMAIN execs, <1>1, <1>2, <1>3, <1>4, <1>5, <1>6, <1>7, <1>8, ExecutionStored

\* cancel() keeps it when it is called.
LEMMA CancelKeeps ==
  ASSUME IInv, NEW x \in DOMAIN execs, CancelExecution(x)
  PROVE  IInv'
<1>1. /\ execs[x].status \in {"running", "paused", "awaiting_approval"}
      /\ UNCHANGED <<workflow, task, runs, resumed, overlapped, misled>>
  BY DEF CancelExecution
<1>2. CASE task[x] = 0 /\ execs' = [execs EXCEPT ![x] = CancelE(@)] /\ UNCHANGED <<loops, cancellers>>
  <2>1. TypeOK /\ execs[x] \in Execution /\ resumed \subseteq DOMAIN execs /\ overlapped \subseteq resumed
    BY KnownTypes DEF IInv, TypeOK
  <2> DEFINE e == CancelE(execs[x])
  <2>2. e \in Execution /\ e.status \in Final
    BY <2>1, Outcomes DEF Final
  <2>3. execs' = [execs EXCEPT ![x] = e]
    BY <1>2
  <2> HIDE DEF e
  <2>4. x \notin overlapped \union misled => \A i \in DOMAIN loops : Live(i) => loops[i].x # x
    <3>1. 0 \notin DOMAIN loops
      BY <2>1, KnownTypes
    <3> QED
      BY <1>2, <3>1 DEF IInv, LoopsAreReachable
  <2> QED
    BY ONLY IInv, x \in DOMAIN execs, <1>1, <1>2, <2>1, <2>2, <2>3, <2>4, ExecutionStored
<1>3. CASE /\ task[x] # 0 /\ loops' = [loops EXCEPT ![task[x]].cancelled = TRUE]
           /\ cancellers' = cancellers \union {[x |-> x, e |-> execs[x], loop |-> task[x]]}
           /\ UNCHANGED execs
  BY <1>1, <1>3, CancelWaits
<1> QED
  BY <1>2, <1>3 DEF CancelExecution

\* So does pause().
LEMMA PauseKeeps ==
  ASSUME IInv, NEW x \in DOMAIN execs, PauseExecution(x)
  PROVE  IInv'
<1>1. TypeOK /\ execs[x] \in Execution /\ resumed \subseteq DOMAIN execs /\ overlapped \subseteq resumed
  BY KnownTypes DEF IInv, TypeOK
<1> DEFINE e == PauseE(execs[x])
<1>2. e \in Execution /\ e.status = "paused" /\ e.completed = execs[x].completed
  BY <1>1 DEF PauseE, Execution, Status
<1>3. /\ execs[x].status = "running" /\ execs' = [execs EXCEPT ![x] = e]
      /\ UNCHANGED <<workflow, loops, task, cancellers, runs, resumed, overlapped, misled>>
  BY DEF PauseExecution
<1> HIDE DEF e
<1>4. execs[x].status \notin Final /\ (Known(execs[x], runs[x]) => Known(e, runs[x]))
  BY <1>2, <1>3 DEF Known, Final
<1>5. \A i \in DOMAIN loops : Fits(i, loops[i], execs[x].status) => Fits(i, loops[i], e.status)
  BY <1>2, <1>3 DEF Fits
<1> QED
  BY ONLY IInv, x \in DOMAIN execs, <1>1, <1>2, <1>3, <1>4, <1>5, ExecutionStored

\* Operations on the definition, and stuttering, leave executions alone.
LEMMA DefinitionKeeps ==
  ASSUME IInv, UNCHANGED <<execs, loops, task, cancellers, runs, resumed, overlapped, misled>>,
         workflow' \in [status : {"draft", "active"}, edges : Graphs] \union {Absent, Deleted}
  PROVE  IInv'
<1>1. TypeOK'
  BY DEF IInv, TypeOK
<1>2. Unborn' /\ OneLoop' /\ NodeChosen' /\ LoopKnows' /\ NodesRunOnce' /\ LoopsAreReachable'
  BY DEF IInv, Unborn, OneLoop, NodeChosen, LoopKnows, NodesRunOnce, LoopsAreReachable, Live, Knows
<1>3. TaskOwn' /\ TaskFits' /\ StoreKnows' /\ StatusFits'
  BY DEF IInv, TaskOwn, TaskFits, StoreKnows, StatusFits, Live, Covered, Known, Fits
<1> QED
  BY <1>1, <1>2, <1>3 DEF IInv

\* An engine without executions satisfies it.
LEMMA InitHolds == Init => IInv
<1> SUFFICES ASSUME Init PROVE IInv
  OBVIOUS
<1>1. /\ execs = <<>> /\ loops = <<>> /\ execs \in Seq(Execution) /\ loops \in Seq(Loop)
      /\ Len(execs) = 0 /\ Len(loops) = 0 /\ DOMAIN execs = {} /\ DOMAIN loops = {}
  BY DEF Init
<1>2. /\ MaxExecs \in Nat /\ MaxLoops \in Nat /\ task = [x \in 1..MaxExecs |-> 0]
      /\ runs = [x \in 1..MaxExecs |-> [n \in Nodes |-> 0]]
  BY WorkflowAssumption DEF Init
<1>3. task \in [1..MaxExecs -> 0..MaxLoops] /\ \A x \in DOMAIN task : task[x] <= Len(loops)
  BY <1>1, <1>2
<1>4. TypeOK
  BY <1>1, <1>2, <1>3 DEF Init, TypeOK
<1>5. Unborn
  BY <1>2 DEF Unborn
<1>6. OneLoop /\ NodeChosen /\ LoopKnows /\ StoreKnows /\ StatusFits /\ TaskOwn /\ TaskFits
  BY <1>1 DEF OneLoop, NodeChosen, LoopKnows, StoreKnows, StatusFits, TaskOwn, TaskFits
<1>7. NodesRunOnce /\ LoopsAreReachable
  BY <1>1 DEF NodesRunOnce, LoopsAreReachable
<1> QED
  BY <1>4, <1>5, <1>6, <1>7 DEF IInv

\* Every step keeps it.
LEMMA NextKeeps == IInv /\ [Next]_vars => IInv'
<1> SUFFICES ASSUME IInv, [Next]_vars PROVE IInv'
  OBVIOUS
<1> DEFINE Definition == [status : {"draft", "active"}, edges : Graphs] \union {Absent, Deleted}
<1>1. workflow \in Definition
  BY DEF IInv, TypeOK
<1>2. ASSUME NEW g \in Graphs, CreateWorkflow(g) \/ UpdateWorkflow(g)
      PROVE  IInv'
  <2>1. workflow' \in Definition
    BY <1>2 DEF CreateWorkflow, UpdateWorkflow, Draft
  <2> QED
    BY <1>2, <2>1, DefinitionKeeps DEF CreateWorkflow, UpdateWorkflow
<1>3. CASE Activate
  <2>1. workflow' \in Definition
    BY <1>1, <1>3 DEF Activate, Absent, Deleted
  <2> QED
    BY <1>3, <2>1, DefinitionKeeps DEF Activate
<1>4. CASE DeleteWorkflow
  BY <1>4, DefinitionKeeps DEF DeleteWorkflow
<1>5. ASSUME NEW from \in Points, ExecuteWorkflow(from) \/ ReplayWorkflow(from)
      PROVE  IInv'
  BY <1>5, LaunchKeeps DEF ExecuteWorkflow, ReplayWorkflow, Exists
<1>6. ASSUME NEW x \in DOMAIN execs, CancelExecution(x) \/ PauseExecution(x) \/ ResumeExecution(x)
      PROVE  IInv'
  BY <1>6, CancelKeeps, PauseKeeps, ResumeKeeps
<1>7. CASE UNCHANGED vars
  BY <1>1, <1>7, DefinitionKeeps DEF vars
<1> QED
  BY <1>2, <1>3, <1>4, <1>5, <1>6, <1>7, ApproveKeeps, CancelReturnKeeps, LoopStepKeeps DEF Next

\* It always holds.
LEMMA Invariance == Spec => []IInv
BY InitHolds, NextKeeps, PTL DEF Spec

\* _run_execution executes no node of an execution a second time, after any
\* number of approvals, pauses, resumptions and failures, unless it is resumed
\* while an earlier loop of it still runs.
THEOREM EachNodeOnce == Spec => []NodesRunOnce
<1>1. IInv => NodesRunOnce
  BY DEF IInv
<1> QED
  BY <1>1, Invariance, PTL

\* While _run_execution is at work on a node, nobody has ended the execution.
THEOREM NoWorkAfterTheEnd == Spec => []EndedMeansIdle
<1>1. IInv => EndedMeansIdle
  BY DEF IInv, EndedMeansIdle, StatusFits, Fits, Live, Working
<1> QED
  BY <1>1, Invariance, PTL

\* cancel_execution finds every loop that is alive in _execution_tasks.
THEOREM CancelFindsLoops == Spec => []LoopsAreReachable
<1>1. IInv => LoopsAreReachable
  BY DEF IInv
<1> QED
  BY <1>1, Invariance, PTL

----------------------------------------------------------------------------
\* A step that stores over no outcome keeps them all.
LEMMA StoredElsewhere ==
  ASSUME IInv, NEW y \in DOMAIN execs, NEW e, execs' = [execs EXCEPT ![y] = e],
         y \notin overlapped \union misled' => execs[y].status \notin Final
  PROVE  OutcomeKept
<1>1. execs \in Seq(Execution)
  BY DEF IInv, TypeOK
<1>2. \A x \in DOMAIN execs \ {y} : execs'[x] = execs[x]
  BY <1>1
<1> QED
  BY <1>2 DEF OutcomeKept

\* Outcomes stand when no execution changes.
LEMMA NothingElsewhere ==
  ASSUME UNCHANGED execs
  PROVE  OutcomeKept
BY DEF OutcomeKept

\* A loop at work stores over no outcome.
LEMMA WorkKeepsOutcomes ==
  ASSUME IInv, NEW i \in DOMAIN loops, loops[i].pc \in Working, UNCHANGED misled,
         NEW l, l.x = loops[i].x, NEW e, NEW pc, Store(i, l, e, pc)
  PROVE  OutcomeKept
<1>1. Live(i) /\ loops[i].x \in DOMAIN execs
  BY KnownTypes DEF IInv, Live, Working
<1>2. loops[i].x \notin overlapped \union misled => execs[loops[i].x].status \notin Final
  BY <1>1 DEF IInv, StatusFits, Fits, Final
<1>3. execs' = [execs EXCEPT ![loops[i].x] = e]
  BY DEF Store
<1> QED
  BY <1>1, <1>2, <1>3, StoredElsewhere

\* A turn of a working loop keeps the outcomes that are final, but for the
\* executions overlapped or misled.
LEMMA TurnKeepsOutcomes ==
  ASSUME IInv, NEW i \in DOMAIN loops, loops[i].pc \in Working, UNCHANGED misled,
         NEW l \in Loop, l.x = loops[i].x, Turn(i, l)
  PROVE  OutcomeKept
<1>1. ASSUME NEW n \in Nodes, Store(i, [l EXCEPT !.ready = Open(l) \ {n}, !.node = n], l.e, "begun")
      PROVE  OutcomeKept
  <2> DEFINE m == [l EXCEPT !.ready = Open(l) \ {n}, !.node = n]
  <2>1. m.x = l.x
    BY DEF Loop
  <2>2. Store(i, m, l.e, "begun")
    BY <1>1
  <2> HIDE DEF m
  <2> QED
    BY <2>1, <2>2, WorkKeepsOutcomes
<1>2. CASE Store(i, l, IF l.e.failed # {} THEN FailE(l.e, {}) ELSE CompleteE(l.e), "ending")
  BY <1>2, WorkKeepsOutcomes
<1>3. CASE Store(i, l, FailE(l.e, {}), "closing")
  BY <1>3, WorkKeepsOutcomes
<1>4. CASE UNCHANGED execs
  BY <1>4, NothingElsewhere
<1> QED
  BY <1>1, <1>2, <1>3, <1>4 DEF Turn

\* So does every step of a loop.
LEMMA LoopKeepsOutcomes ==
  ASSUME IInv, NEW i \in DOMAIN loops, LoopSteps(i)
  PROVE  OutcomeKept
<1> DEFINE l == loops[i]
<1>1. l \in Loop /\ l.x \in DOMAIN execs /\ l.e \in Execution /\ execs \in Seq(Execution)
  BY LoopFinds DEF IInv, TypeOK
<1>2. UNCHANGED <<misled, cancellers>>
  BY DEF LoopSteps, LoopStarts, PlanBuilt, LooksAgain, NodeExecutes, NodeReturns, NodeRaises, NodeDone,
         LoopEnds, LoopCrashes, LoopDies, LoopCancelled, LoopFrame
<1>3. CASE PlanBuilt(i)
  <2> DEFINE m == [l EXCEPT !.ready = StartNodes(l)]
  <2>1. StartNodes(l) \subseteq Ids
    BY <1>1, WorkflowAssumption DEF StartNodes, Execution
  <2>2. m \in Loop /\ m.x = l.x
    BY <1>1, <2>1 DEF Loop
  <2>3. l.pc \in Working /\ Turn(i, m)
    BY <1>3 DEF PlanBuilt, Resumes, Working
  <2> HIDE DEF m
  <2> QED
    BY <1>2, <2>2, <2>3, TurnKeepsOutcomes
<1>4. CASE LooksAgain(i)
  BY <1>1, <1>2, <1>4, TurnKeepsOutcomes DEF LooksAgain, Resumes, Working
<1>5. CASE NodeDone(i)
  <2> DEFINE m == [l EXCEPT !.ready = @ \union Released(l), !.mine = @ \union {l.node}]
  <2>1. l.pc = "noded" /\ l.pc \in Working /\ Turn(i, m)
    BY <1>5 DEF NodeDone, Resumes, Working
  <2>2. l.node \in Nodes /\ l.edges \subseteq Ids \X Ids
    BY <1>1, <2>1, LoopFinds, LoopFields, WorkflowAssumption
  <2>3. l.ready \union Released(l) \subseteq Ids /\ l.mine \union {l.node} \subseteq Nodes
    BY <1>1, <2>2, LoopFields DEF Released, Succs
  <2>4. m \in Loop /\ m.x = l.x
    BY <1>1, <2>3 DEF Loop
  <2> HIDE DEF m
  <2> QED
    BY <1>2, <2>1, <2>4, TurnKeepsOutcomes
<1>6. CASE LoopStarts(i) \/ NodeReturns(i) \/ NodeRaises(i)
  BY <1>2, <1>6, WorkKeepsOutcomes DEF LoopStarts, NodeReturns, NodeRaises, Resumes, Working
<1>7. CASE NodeExecutes(i)
  BY <1>2, <1>7, WorkKeepsOutcomes, NothingElsewhere DEF NodeExecutes, Resumes, Working
<1>8. CASE LoopEnds(i) \/ LoopDies(i)
  BY <1>8, NothingElsewhere DEF LoopEnds, LoopDies, Finally
<1>9. l.pc = "ending" /\ l.x \notin overlapped \union misled =>
        /\ execs[l.x].status # "cancelled"
        /\ l.cancelled => execs[l.x].status # "completed" /\ \E c \in cancellers : c.x = l.x
  BY LoopFinds DEF Fits, Live
<1>10. CASE LoopCrashes(i)
  <2>1. CASE l.pc \in Working
    BY <1>2, <1>10, <2>1, WorkKeepsOutcomes DEF LoopCrashes
  <2>2. CASE l.pc \notin Working
    <3>1. l.pc = "ending" /\ execs' = [execs EXCEPT ![l.x] = FailE(l.e, {})]
      BY <1>10, <2>2 DEF LoopCrashes, Resumes, Working, Store
    <3>2. FailE(l.e, {}).status = "failed"
      BY <1>1, Outcomes
    <3>3. execs'[l.x].status = "failed" /\ \A x \in DOMAIN execs \ {l.x} : execs'[x] = execs[x]
      BY <1>1, <3>1, <3>2
    <3> QED
      BY <1>2, <1>9, <3>1, <3>3 DEF OutcomeKept, Final
  <2> QED
    BY <2>1, <2>2
<1>11. CASE LoopCancelled(i)
  <2>1. CASE UNCHANGED execs
    BY <2>1, NothingElsewhere
  <2>2. CASE /\ l.pc \notin {"new", "closing"}
             /\ Store(i, [l EXCEPT !.cancelled = FALSE], CancelE(l.e), "closing")
    <3>1. execs' = [execs EXCEPT ![l.x] = CancelE(l.e)]
      BY <1>1, <2>2 DEF Store, Loop
    <3>2. CASE l.pc \in Working
      <4>1. l.x \notin overlapped \union misled => execs[l.x].status \notin Final
        BY <3>2, LoopFinds DEF Fits, Final, Live, Working
      <4> QED
        BY <1>1, <1>2, <3>1, <4>1, StoredElsewhere
    <3>3. CASE l.pc \notin Working
      <4>1. l.pc = "ending" /\ l.cancelled
        BY <1>1, <1>11, <2>2, <3>3, LoopFields DEF LoopCancelled, Live, PC, Working
      <4>2. CancelE(l.e).status = "cancelled"
        BY <1>1, Outcomes
      <4>3. execs'[l.x].status = "cancelled" /\ \A x \in DOMAIN execs \ {l.x} : execs'[x] = execs[x]
        BY <1>1, <3>1, <4>2
      <4> QED
        BY <1>2, <1>9, <4>1, <4>3 DEF OutcomeKept, Final
    <3> QED
      BY <3>2, <3>3
  <2> QED
    BY <1>11, <2>1, <2>2 DEF LoopCancelled, Finally
<1> QED
  BY <1>3, <1>4, <1>5, <1>6, <1>7, <1>8, <1>10, <1>11 DEF LoopSteps

\* The outcome of an execution stands, through every call of a client and every
\* late copy that a loop or a cancel_execution stores.
THEOREM OutcomesStand == Spec => OutcomeStands
<1>1. IInv /\ [Next]_vars => [OutcomeKept]_vars
  <2> SUFFICES ASSUME IInv, Next PROVE OutcomeKept
    OBVIOUS
  <2>1. ASSUME NEW g \in Graphs, CreateWorkflow(g) \/ UpdateWorkflow(g)
        PROVE  OutcomeKept
    BY <2>1, NothingElsewhere DEF CreateWorkflow, UpdateWorkflow
  <2>2. CASE Activate \/ DeleteWorkflow
    BY <2>2, NothingElsewhere DEF Activate, DeleteWorkflow
  <2>3. ASSUME NEW from \in Points, ExecuteWorkflow(from) \/ ReplayWorkflow(from)
        PROVE  OutcomeKept
    <3>1. execs \in Seq(Execution) /\ execs' = Append(execs, NewExecution(from))
      BY <2>3 DEF ExecuteWorkflow, ReplayWorkflow, Launch, IInv, TypeOK
    <3>2. \A x \in DOMAIN execs : execs'[x] = execs[x]
      BY <3>1
    <3> QED
      BY <3>2 DEF OutcomeKept
  <2>4. ASSUME NEW n \in Gates, NEW approved \in BOOLEAN, ApproveWorkflow(n, approved)
        PROVE  OutcomeKept
    BY <2>4, StoredElsewhere DEF ApproveWorkflow, Final
  <2>5. ASSUME NEW x \in DOMAIN execs, CancelExecution(x) \/ PauseExecution(x) \/ ResumeExecution(x)
        PROVE  OutcomeKept
    BY <2>5, StoredElsewhere, NothingElsewhere DEF CancelExecution, PauseExecution, ResumeExecution, Final
  <2>6. ASSUME NEW c \in cancellers, CancelReturns(c)
        PROVE  OutcomeKept
    <3>1. c.x \in DOMAIN execs
      BY DEF IInv, TypeOK
    <3>2. CASE UNCHANGED execs
      BY <3>2, NothingElsewhere
    <3>3. CASE /\ task[c.x] # 0 /\ execs' = [execs EXCEPT ![c.x] = CancelE(c.e)]
               /\ misled' = misled \union {x \in {c.x} : task[x] # c.loop}
      <4>1. c.x \notin misled' => task[c.x] = c.loop /\ c.x \notin misled
        BY <3>3
      <4>2. c.x \notin overlapped \union misled' => execs[c.x].status \notin Final
        BY <2>6, <3>1, <3>3, <4>1 DEF CancelReturns, IInv, TaskFits, Final
      <4> QED
        BY <3>1, <3>3, <4>2, StoredElsewhere
    <3> QED
      BY <2>6, <3>2, <3>3 DEF CancelReturns
  <2> QED
    BY <2>1, <2>2, <2>3, <2>4, <2>5, <2>6, LoopKeepsOutcomes DEF Next
<1> QED
  BY <1>1, Invariance, PTL DEF Spec, OutcomeStands

(***************************************************************************)
(* Workflows: the order of the nodes                                       *)
(***************************************************************************)
-----------------------------------------------------------------------------
(* Kahn's algorithm: f[k] are the elements of V that the first k rounds    *)
(* take, pre[n] those that n waits for.                                    *)

\* f is the solution of the recursion of Sorted and SortedStages.
Rounds(f, V, pre) ==
  f = [k \in Nat |-> IF k = 0 THEN {} ELSE {n \in V : pre[n] \subseteq f[k - 1]}]

\* The recursion has a solution.
LEMMA RoundsExist ==
  ASSUME NEW V, NEW pre
  PROVE  \E f : Rounds(f, V, pre)
<1> DEFINE W == SUBSET V
           E(f) == [k \in Nat |-> IF k = 0 THEN {} ELSE {n \in V : pre[n] \subseteq f[k - 1]}]
           F == [f \in [Nat -> W] |-> E(f)]
           m == [k \in Nat |-> k]
           start == [k \in Nat |-> {}]
<1>1. m \in [Nat -> Nat] /\ start \in [Nat -> W]
  OBVIOUS
<1>2. F \in [[Nat -> W] -> [Nat -> W]]
  OBVIOUS
<1>3. ASSUME NEW f \in [Nat -> W], NEW g \in [Nat -> W], NEW k \in Nat,
             \A e \in Nat : m[e] < m[k] => f[e] = g[e]
      PROVE  F[f][k] = F[g][k]
  <2>1. F[f][k] = E(f)[k] /\ F[g][k] = E(g)[k]
    OBVIOUS
  <2>2. CASE k = 0
    BY <2>1, <2>2
  <2>3. CASE k # 0
    <3>1. k - 1 \in Nat /\ m[k - 1] < m[k]
      BY <2>3
    <3>2. f[k - 1] = g[k - 1]
      BY <1>3, <3>1
    <3> QED
      BY <2>1, <2>3, <3>2
  <2> QED
    BY <2>2, <2>3
<1> HIDE DEF F, m, start, W
<1>4. Decreases(F, m, Nat, W)
  BY <1>1, <1>2, <1>3 DEF Decreases
<1>5. PICK f : f = F[f] /\ f \in [Nat -> W]
  BY <1>1, <1>4, Solution
<1>6. f = E(f)
  BY <1>5 DEF F
<1> QED
  BY <1>6 DEF Rounds

\* The recursion, one round at a time.
LEMMA RoundsStep ==
  ASSUME NEW V, NEW pre, NEW f, Rounds(f, V, pre)
  PROVE  /\ f[0] = {}
         /\ \A k \in Nat : f[k] \subseteq V /\ f[k + 1] = {n \in V : pre[n] \subseteq f[k]}
<1>1. \A k \in Nat : f[k] = IF k = 0 THEN {} ELSE {n \in V : pre[n] \subseteq f[k - 1]}
  BY DEF Rounds
<1>2. f[0] = {}
  BY <1>1
<1>3. ASSUME NEW k \in Nat PROVE f[k + 1] = {n \in V : pre[n] \subseteq f[k]}
  <2>1. k + 1 \in Nat /\ k + 1 # 0 /\ (k + 1) - 1 = k
    OBVIOUS
  <2> QED
    BY <1>1, <2>1
<1>4. ASSUME NEW k \in Nat PROVE f[k] \subseteq V
  BY <1>1
<1> QED
  BY <1>2, <1>3, <1>4

\* What the rounds take is in every set that has each element with those it waits for.
LEMMA RoundsStayIn ==
  ASSUME NEW V, NEW pre, NEW f, Rounds(f, V, pre),
         NEW C, \A n \in V : pre[n] \subseteq C => n \in C
  PROVE  \A k \in Nat : f[k] \subseteq C
<1> DEFINE S == {k \in Nat : f[k] \subseteq C}
<1>1. 0 \in S
  BY RoundsStep
<1>2. ASSUME NEW k \in Nat, k \in S PROVE k + 1 \in S
  BY <1>2, RoundsStep
<1>3. Nat \subseteq S
  <2> HIDE DEF S
  <2> QED
    BY <1>1, <1>2, Induction
<1> QED
  BY <1>3

\* When every set of elements has one that waits for none of the others, as
\* many rounds as there are elements take them all.
LEMMA RoundsTakeAll ==
  ASSUME NEW V, IsFiniteSet(V), NEW pre, NEW f, Rounds(f, V, pre),
         \A n \in V : pre[n] \subseteq V,
         \A T \in SUBSET V : T # {} => \E n \in T : pre[n] \intersect T = {}
  PROVE  f[Cardinality(V)] = V
<1>1. /\ f[0] = {}
      /\ \A k \in Nat : f[k] \subseteq V /\ f[k + 1] = {n \in V : pre[n] \subseteq f[k]}
  BY RoundsStep
<1>2. \A k \in Nat : f[k] \subseteq f[k + 1]
  <2> DEFINE S == {k \in Nat : f[k] \subseteq f[k + 1]}
  <2>1. 0 \in S
    BY <1>1
  <2>2. ASSUME NEW k \in Nat, k \in S PROVE k + 1 \in S
    <3>1. k + 1 \in Nat
      OBVIOUS
    <3>2. f[k + 1] = {n \in V : pre[n] \subseteq f[k]} /\ f[(k + 1) + 1] = {n \in V : pre[n] \subseteq f[k + 1]}
      BY <1>1, <3>1
    <3> QED
      BY <2>2, <3>1, <3>2
  <2> HIDE DEF S
  <2>3. Nat \subseteq S
    BY <2>1, <2>2, Induction
  <2> QED
    BY <2>3 DEF S
<1>3. \A A \in SUBSET V : IsFiniteSet(A) /\ Cardinality(A) \in Nat
  BY FS_Subset, FS_CardinalityType
<1> DEFINE S == {k \in Nat : f[k] = V \/ Cardinality(f[k]) >= k}
<1>4. 0 \in S
  <2>1. Cardinality(f[0]) = 0
    BY <1>1, FS_EmptySet
  <2> QED
    BY <2>1
<1>5. ASSUME NEW k \in Nat, k \in S PROVE k + 1 \in S
  <2>1. f[k] \subseteq V /\ f[k + 1] \subseteq V /\ f[k] \subseteq f[k + 1] /\ k + 1 \in Nat
    BY <1>1, <1>2
  <2>2. CASE f[k] = V
    BY <2>1, <2>2
  <2>3. CASE f[k] # V
    <3>1. PICK n \in V \ f[k] : pre[n] \intersect (V \ f[k]) = {}
      BY <2>1, <2>3
    <3>2. n \in f[k + 1]
      BY <1>1, <3>1
    <3>3. IsFiniteSet(f[k]) /\ IsFiniteSet(f[k + 1])
          /\ Cardinality(f[k]) \in Nat /\ Cardinality(f[k + 1]) \in Nat
      BY <1>3, <2>1
    <3>4. Cardinality(f[k] \union {n}) = Cardinality(f[k]) + 1
      BY <3>1, <3>3, FS_AddElement
    <3>5. f[k] \union {n} \subseteq f[k + 1]
      BY <2>1, <3>2
    <3>6. Cardinality(f[k] \union {n}) <= Cardinality(f[k + 1])
      BY <3>3, <3>5, FS_Subset
    <3>7. Cardinality(f[k]) >= k
      BY <1>5, <2>3
    <3>8. Cardinality(f[k + 1]) >= k + 1
      BY <3>3, <3>4, <3>6, <3>7
    <3> QED
      BY <2>1, <3>8
  <2> QED
    BY <2>2, <2>3
<1>6. Nat \subseteq S
  <2> HIDE DEF S
  <2> QED
    BY <1>4, <1>5, Induction
<1> DEFINE c == Cardinality(V)
<1>7. c \in Nat
  BY <1>3
<1>8. f[c] = V \/ Cardinality(f[c]) >= c
  BY <1>6, <1>7
<1>9. f[c] \subseteq V /\ Cardinality(f[c]) \in Nat
  BY <1>1, <1>3, <1>7
<1>10. f[c] = V \/ Cardinality(f[c]) = Cardinality(V)
  BY <1>7, <1>8, <1>9, FS_Subset
<1> QED
  BY <1>9, <1>10, FS_Subset

-----------------------------------------------------------------------------
(* validate_workflow and the loops. *)

\* The rounds of validate_workflow are such a recursion over the nodes.
LEMMA SortedRounds ==
  ASSUME NEW g
  PROVE  Rounds(Sorted(g), Nodes, [n \in Nodes |-> Preds(n, g)])
<1> DEFINE pre == [n \in Nodes |-> Preds(n, g)]
           E(f) == [k \in Nat |-> IF k = 0 THEN {} ELSE {n \in Nodes : Preds(n, g) \subseteq f[k - 1]}]
<1>1. PICK h : Rounds(h, Nodes, pre)
  BY RoundsExist
<1>2. \A f : E(f) = [k \in Nat |-> IF k = 0 THEN {} ELSE {n \in Nodes : pre[n] \subseteq f[k - 1]}]
  OBVIOUS
<1>3. h = E(h)
  BY <1>1, <1>2 DEF Rounds
<1>4. Sorted(g) = CHOOSE f : f = E(f)
  BY DEF Sorted
<1>5. Sorted(g) = E(Sorted(g))
  BY <1>3, <1>4
<1> QED
  BY <1>2, <1>5 DEF Rounds

\* The nodes of C were completed one after the other, each after its
\* dependencies.
Sound(C, g) ==
  /\ C \subseteq Nodes /\ \A n \in C : Preds(n, g) \subseteq C
  /\ \A T \in SUBSET C : T # {} => \E n \in T : Preds(n, g) \intersect T = {}

\* Executing a node whose predecessors were executed keeps the executed nodes
\* closed under what they depend on.
LEMMA SoundGrows ==
  ASSUME NEW C, NEW g, Sound(C, g), NEW n \in Nodes, n \notin C, Preds(n, g) \subseteq C
  PROVE  Sound(C \union {n}, g)
<1>1. \A m \in C \union {n} : Preds(m, g) \subseteq C
  BY DEF Sound
<1>2. ASSUME NEW T \in SUBSET (C \union {n}), T # {} PROVE \E m \in T : Preds(m, g) \intersect T = {}
  <2>1. CASE T \ {n} = {}
    BY <1>1, <1>2, <2>1
  <2>2. CASE T \ {n} # {}
    <3>1. PICK m \in T \ {n} : Preds(m, g) \intersect (T \ {n}) = {}
      BY <2>2 DEF Sound
    <3> QED
      BY <1>1, <3>1
  <2> QED
    BY <2>1, <2>2
<1> QED
  BY <1>1, <1>2 DEF Sound

\* When no node is left whose dependencies are completed, all are completed
\* exactly if validate_workflow can sort them.
LEMMA KahnDecides ==
  ASSUME NEW C, NEW g, Sound(C, g), \A n \in Nodes : Preds(n, g) \subseteq C => n \in C
  PROVE  C = Nodes <=> IsAcyclic(g)
<1> DEFINE pre == [n \in Nodes |-> Preds(n, g)]
           f == Sorted(g)
<1>1. Rounds(f, Nodes, pre)
  BY SortedRounds
<1>2. \A n \in Nodes : pre[n] = Preds(n, g)
  OBVIOUS
<1>3. IsFiniteSet(Nodes) /\ Cardinality(Nodes) \in Nat
  BY WorkflowAssumption, FS_CardinalityType
<1> HIDE DEF pre, f
<1>4. ASSUME C = Nodes PROVE f[Cardinality(Nodes)] = Nodes
  <2>1. \A n \in Nodes : pre[n] \subseteq Nodes
    BY <1>2, <1>4 DEF Sound
  <2>2. \A T \in SUBSET Nodes : T # {} => \E n \in T : pre[n] \intersect T = {}
    BY <1>2, <1>4 DEF Sound
  <2> QED
    BY <1>1, <1>3, <2>1, <2>2, RoundsTakeAll
<1>5. ASSUME f[Cardinality(Nodes)] = Nodes PROVE C = Nodes
  <2>1. \A n \in Nodes : pre[n] \subseteq C => n \in C
    BY <1>2
  <2>2. f[Cardinality(Nodes)] \subseteq C
    BY <1>1, <1>3, <2>1, RoundsStayIn
  <2> QED
    BY <1>5, <2>2 DEF Sound
<1> QED
  BY <1>4, <1>5 DEF IsAcyclic, f

\* A node is in hand, or has been offered to the loop, once those it depends on
\* were executed.
InHand(l) == IF l.pc \in {"begun", "node"} THEN {l.node} ELSE {}
\* No node whose predecessors are executed is overlooked: the loop has it
\* ready, in hand or completed.
Offered(l) ==
  \A n \in Nodes : Preds(n, l.edges) \subseteq l.mine => n \in l.ready \union l.e.completed \union InHand(l)

\* A loop that runs from the start.
Orderly(l) ==
  l.e.from = None =>
    /\ l.pc \in {"new", "started"} => l.e.completed = {} /\ l.mine = {}
    /\ l.pc \in {"sleep", "begun", "node"} => l.e.completed = l.mine
    /\ l.pc = "noded" => l.e.completed = l.mine \union {l.node}
    /\ l.pc \in {"sleep", "begun", "node", "noded"} => Sound(l.e.completed, l.edges) /\ Offered(l)
    /\ l.pc \in {"begun", "node"} => Preds(l.node, l.edges) \subseteq l.mine /\ l.node \notin l.mine

\* What it completes with.
Good(e, g) == e.status = "completed" /\ e.from = None => (e.completed = Nodes <=> IsAcyclic(g))

\* One loop per execution that was not resumed, and that loop is orderly and
\* ends with the outcome its graph allows.
KInv ==
  /\ \A i, j \in DOMAIN loops : loops[i].x = loops[j].x /\ loops[i].x \notin resumed => i = j
  /\ \A i \in DOMAIN loops :
       loops[i].x \notin resumed => Orderly(loops[i]) /\ Good(execs[loops[i].x], loops[i].edges)

\* What the methods of WorkflowExecution do to the fields KInv reads.
LEMMA CopyFields ==
  ASSUME NEW e \in Execution, NEW ns, NEW n
  PROVE  /\ StartE(e).from = e.from /\ StartE(e).completed = e.completed /\ StartE(e).status = "running"
         /\ CompleteE(e).from = e.from /\ CompleteE(e).completed = e.completed
         /\ FailE(e, ns).status = "failed" /\ CancelE(e).status = "cancelled" /\ PauseE(e).status = "paused"
         /\ CompleteNode(e, n).from = e.from /\ CompleteNode(e, n).completed = e.completed \union {n}
         /\ CompleteNode(e, n).status = e.status
         /\ RequestApproval(e, n).status = "awaiting_approval"
         /\ \A a \in BOOLEAN : DecideApproval(e, n, a).status \in {"running", "failed"}
  BY DEF Execution, StartE, CompleteE, FailE, CancelE, PauseE, CompleteNode, RequestApproval, DecideApproval

\* Loop i becomes r, its execution e.
Becomes(i, r, e) ==
  /\ loops' = [loops EXCEPT ![i] = r] /\ execs' = [execs EXCEPT ![r.x] = e] /\ resumed' = resumed
  /\ r.x = loops[i].x /\ r.edges = loops[i].edges
  /\ r.x \notin resumed => Orderly(r) /\ Good(e, r.edges)

\* A step that replaces one loop by an orderly one keeps KInv.
LEMMA BecomesKeeps ==
  ASSUME IInv, KInv, NEW i \in DOMAIN loops, NEW r, NEW e, Becomes(i, r, e)
  PROVE  KInv'
<1>1. /\ DOMAIN loops' = DOMAIN loops /\ loops'[i] = r
      /\ \A j \in DOMAIN loops \ {i} : loops'[j] = loops[j]
  BY KnownTypes DEF Becomes, IInv
<1>2. r.x \in DOMAIN execs
  BY KnownTypes DEF Becomes, IInv
<1>3. execs'[r.x] = e /\ \A y \in DOMAIN execs \ {r.x} : execs'[y] = execs[y]
  BY <1>2 DEF Becomes
<1>4. \A j \in DOMAIN loops : loops'[j].x = loops[j].x /\ loops'[j].edges = loops[j].edges
                              /\ loops[j].x \in DOMAIN execs
  BY <1>1, KnownTypes DEF Becomes, IInv
<1>5. resumed' = resumed
  BY DEF Becomes
<1>6. ASSUME NEW j \in DOMAIN loops, loops[j].x \notin resumed
      PROVE  Orderly(loops'[j]) /\ Good(execs'[loops[j].x], loops[j].edges)
  <2>1. CASE j = i
    BY <1>1, <1>3, <1>6, <2>1 DEF Becomes
  <2>2. CASE j # i
    <3>1. loops[j].x # r.x
      BY <1>6, <2>2 DEF KInv, Becomes
    <3> QED
      BY <1>1, <1>3, <1>4, <1>6, <2>2, <3>1 DEF KInv
  <2> QED
    BY <2>1, <2>2
<1> QED
  BY <1>1, <1>4, <1>5, <1>6 DEF KInv

\* A loop at the top of the while loop.
Poised(l) ==
  l.e.from = None =>
    /\ l.e.completed = l.mine /\ Sound(l.e.completed, l.edges)
    /\ \A n \in Nodes : Preds(n, l.edges) \subseteq l.mine => n \in l.ready \union l.e.completed

\* The execution of a loop is stored, and KInv speaks of the loop.
LEMMA ExecutionFound ==
  ASSUME IInv, KInv, NEW i \in DOMAIN loops
  PROVE  /\ loops[i] \in Loop /\ loops[i].e \in Execution
         /\ loops[i].x \in DOMAIN execs /\ execs = [execs EXCEPT ![loops[i].x] = execs[loops[i].x]]
         /\ loops[i].x \notin resumed => Orderly(loops[i]) /\ Good(execs[loops[i].x], loops[i].edges)
<1>1. loops[i] \in Loop /\ loops[i].x \in DOMAIN execs /\ execs \in Seq(Execution)
  BY KnownTypes DEF IInv, TypeOK
<1>2. loops[i].e \in Execution
  BY <1>1, LoopFields
<1>3. execs = [execs EXCEPT ![loops[i].x] = execs[loops[i].x]]
  BY <1>1
<1> QED
  BY <1>1, <1>2, <1>3 DEF KInv

\* A loop that stores an outcome or waits for a handler is orderly.
LEMMA OrderlyEnds ==
  ASSUME NEW l, l.pc \in {"ending", "closing", "done", "dead"}
  PROVE  Orderly(l)
  BY DEF Orderly

\* One turn of the loop, from its while condition to the next await, leaves
\* an orderly loop.
LEMMA TurnBecomes ==
  ASSUME IInv, KInv, NEW i \in DOMAIN loops, NEW l \in Loop, l.x = loops[i].x, l.edges = loops[i].edges,
         l.x \notin resumed => Poised(l) /\ l.e.status = "running", Turn(i, l), resumed' = resumed
  PROVE  \E r, e : Becomes(i, r, e)
<1>1. l.e \in Execution
  BY LoopFields
<1>2. CASE Open(l) = {} /\ Store(i, l, IF l.e.failed # {} THEN FailE(l.e, {}) ELSE CompleteE(l.e), "ending")
  <2> DEFINE e == IF l.e.failed # {} THEN FailE(l.e, {}) ELSE CompleteE(l.e)
             r == [l EXCEPT !.e = e, !.pc = "ending"]
  <2>1. e.status = "failed" \/ (e.from = l.e.from /\ e.completed = l.e.completed)
    BY <1>1, CopyFields
  <2>2. loops' = [loops EXCEPT ![i] = r] /\ execs' = [execs EXCEPT ![l.x] = e]
    BY <1>2 DEF Store
  <2> HIDE DEF e
  <2>3. r.x = l.x /\ r.edges = l.edges /\ r.pc = "ending"
    BY DEF Loop
  <2> HIDE DEF r
  <2>4. ASSUME l.x \notin resumed PROVE Good(e, l.edges)
    <3> SUFFICES ASSUME e.status = "completed", e.from = None PROVE e.completed = Nodes <=> IsAcyclic(l.edges)
      BY DEF Good
    <3>1. e.completed = l.e.completed /\ Poised(l) /\ l.e.from = None
      BY <2>1, <2>4
    <3>2. Sound(l.e.completed, l.edges)
      BY <3>1 DEF Poised
    <3>3. \A n \in Nodes : Preds(n, l.edges) \subseteq l.e.completed => n \in l.e.completed
      BY <1>2, <3>1 DEF Poised, Open
    <3> QED
      BY <3>1, <3>2, <3>3, KahnDecides
  <2>5. Becomes(i, r, e)
    BY <2>2, <2>3, <2>4, OrderlyEnds DEF Becomes
  <2> QED
    BY <2>5
<1>3. CASE Store(i, l, FailE(l.e, {}), "closing")
  <2> DEFINE e == FailE(l.e, {})
             r == [l EXCEPT !.e = e, !.pc = "closing"]
  <2>1. e.status = "failed"
    BY <1>1, CopyFields
  <2>2. loops' = [loops EXCEPT ![i] = r] /\ execs' = [execs EXCEPT ![l.x] = e]
    BY <1>3 DEF Store
  <2> HIDE DEF e
  <2>3. r.x = l.x /\ r.edges = l.edges /\ r.pc = "closing"
    BY DEF Loop
  <2> HIDE DEF r
  <2>4. Good(e, l.edges)
    BY <2>1 DEF Good
  <2>5. Becomes(i, r, e)
    BY <2>2, <2>3, <2>4, OrderlyEnds DEF Becomes
  <2> QED
    BY <2>5
<1>4. ASSUME NEW n \in Open(l) \intersect Nodes, DepsCompleted(l, n),
             Store(i, [l EXCEPT !.ready = Open(l) \ {n}, !.node = n], l.e, "begun")
      PROVE  \E r, e : Becomes(i, r, e)
  <2> DEFINE m == [l EXCEPT !.ready = Open(l) \ {n}, !.node = n]
             r == [m EXCEPT !.e = l.e, !.pc = "begun"]
  <2>0. /\ m \in Loop /\ m.x = l.x /\ m.edges = l.edges /\ m.node = n
        /\ m.ready = Open(l) \ {n} /\ m.mine = l.mine
    BY DEF Loop, Open
  <2>00. Store(i, m, l.e, "begun")
    BY <1>4
  <2> HIDE DEF m
  <2>1. /\ r.x = l.x /\ r.edges = l.edges /\ r.pc = "begun" /\ r.node = n
        /\ r.ready = Open(l) \ {n} /\ r.mine = l.mine /\ r.e = l.e
    BY <2>0 DEF Loop
  <2>2. loops' = [loops EXCEPT ![i] = r] /\ execs' = [execs EXCEPT ![l.x] = l.e]
    BY <2>0, <2>00 DEF Store
  <2> HIDE DEF r
  <2>3. ASSUME l.x \notin resumed PROVE Orderly(r) /\ Good(l.e, l.edges)
    <3>0. Good(l.e, l.edges)
      BY <2>3 DEF Good
    <3>1. ASSUME l.e.from = None PROVE Orderly(r)
      <4>1. l.e.completed = l.mine /\ Sound(l.e.completed, l.edges)
        BY <2>3, <3>1 DEF Poised
      <4>2. Preds(n, l.edges) \subseteq l.mine /\ n \notin l.mine
        BY <1>4, <4>1 DEF DepsCompleted, Open
      <4>3. Offered(r)
        BY <2>1, <2>3, <3>1 DEF Poised, Offered, InHand, Open
      <4> QED
        BY <2>1, <4>1, <4>2, <4>3 DEF Orderly
    <3>2. l.e.from # None => Orderly(r)
      BY <2>1 DEF Orderly
    <3> QED
      BY <3>0, <3>1, <3>2
  <2>4. Becomes(i, r, l.e)
    BY <2>1, <2>2, <2>3 DEF Becomes
  <2> QED
    BY <2>4
<1>5. CASE /\ loops' = [loops EXCEPT ![i] = [l EXCEPT !.ready = Open(l), !.pc = "sleep"]]
           /\ UNCHANGED <<execs, task>>
  <2> DEFINE r == [l EXCEPT !.ready = Open(l), !.pc = "sleep"]
             e == execs[l.x]
  <2>1. /\ r.x = l.x /\ r.edges = l.edges /\ r.pc = "sleep"
        /\ r.ready = Open(l) /\ r.mine = l.mine /\ r.e = l.e
    BY DEF Loop
  <2>2. loops' = [loops EXCEPT ![i] = r] /\ execs' = [execs EXCEPT ![l.x] = e]
        /\ (l.x \notin resumed => Good(e, l.edges))
    BY <1>5, ExecutionFound
  <2> HIDE DEF r, e
  <2>3. ASSUME l.x \notin resumed, l.e.from = None PROVE Orderly(r)
    <3>1. Offered(r)
      BY <2>1, <2>3 DEF Poised, Offered, InHand, Open
    <3> QED
      BY <2>1, <2>3, <3>1 DEF Orderly, Poised
  <2>4. l.e.from # None => Orderly(r)
    BY <2>1 DEF Orderly
  <2>5. Becomes(i, r, e)
    BY <2>1, <2>2, <2>3, <2>4 DEF Becomes
  <2> QED
    BY <2>5
<1> QED
  BY <1>2, <1>3, <1>4, <1>5 DEF Turn

\* A loop stores a copy that is not completed.
LEMMA StoreBecomes ==
  ASSUME NEW i \in DOMAIN loops, NEW l \in Loop, l.x = loops[i].x, l.edges = loops[i].edges,
         NEW e, e.status # "completed", NEW pc, Store(i, l, e, pc), resumed' = resumed,
         \A r : /\ r.x = l.x /\ r.edges = l.edges /\ r.ready = l.ready /\ r.mine = l.mine
                /\ r.node = l.node /\ r.e = e /\ r.pc = pc
                /\ r.x \notin resumed
                => Orderly(r)
  PROVE  \E r, f : Becomes(i, r, f)
<1> DEFINE r == [l EXCEPT !.e = e, !.pc = pc]
<1>1. /\ r.x = l.x /\ r.edges = l.edges /\ r.ready = l.ready /\ r.mine = l.mine
      /\ r.node = l.node /\ r.e = e /\ r.pc = pc
  BY DEF Loop
<1>2. loops' = [loops EXCEPT ![i] = r] /\ execs' = [execs EXCEPT ![l.x] = e]
  BY DEF Store
<1> HIDE DEF r
<1>3. Good(e, l.edges)
  BY DEF Good
<1>4. r.x \notin resumed => Orderly(r)
  BY <1>1
<1>5. Becomes(i, r, e)
  BY <1>1, <1>2, <1>3, <1>4 DEF Becomes
<1> QED
  BY <1>5

\* A loop moves and its execution stays.
LEMMA StayBecomes ==
  ASSUME IInv, KInv, NEW i \in DOMAIN loops, NEW r, r.x = loops[i].x, r.edges = loops[i].edges,
         loops' = [loops EXCEPT ![i] = r], UNCHANGED execs, resumed' = resumed,
         r.x \notin resumed => Orderly(r)
  PROVE  \E q, f : Becomes(i, q, f)
<1>1. execs' = [execs EXCEPT ![r.x] = execs[r.x]]
  BY ExecutionFound
<1>2. r.x \notin resumed => Good(execs[r.x], r.edges)
  BY ExecutionFound
<1>3. Becomes(i, r, execs[r.x])
  BY <1>1, <1>2 DEF Becomes
<1> QED
  BY <1>3

\* So does every step of a loop, whichever await it returns from.
LEMMA LoopStepBecomes ==
  ASSUME IInv, KInv, NEW i \in DOMAIN loops, LoopSteps(i)
  PROVE  \E r, e : Becomes(i, r, e)
<1> DEFINE l == loops[i]
<1>1. /\ l \in Loop /\ l.e \in Execution /\ l.x \in DOMAIN execs
      /\ l.x \notin resumed => Orderly(l) /\ Good(execs[l.x], l.edges)
  BY ExecutionFound
<1>2. ASSUME l.x \notin resumed, l.pc \in Working \ {"new"} PROVE l.e.status = "running"
  <2>1. l.x \notin overlapped
    BY <1>2 DEF IInv, TypeOK
  <2> QED
    BY <1>2, <2>1 DEF IInv, LoopKnows, Knows
<1>3. resumed' = resumed
  BY DEF LoopSteps, LoopStarts, PlanBuilt, LooksAgain, NodeExecutes, NodeReturns, NodeRaises, NodeDone,
         LoopEnds, LoopCrashes, LoopDies, LoopCancelled, LoopFrame
<1>4. ASSUME NEW pc \in {"ending", "closing", "done", "dead"}, NEW r, r.pc = pc PROVE Orderly(r)
  BY <1>4, OrderlyEnds
<1>5. CASE LoopStarts(i)
  <2> DEFINE e == StartE(l.e)
  <2>1. l.pc = "new" /\ Store(i, l, e, "started")
    BY <1>5 DEF LoopStarts, Resumes
  <2>2. e.status = "running" /\ e.from = l.e.from /\ e.completed = l.e.completed
    BY <1>1, CopyFields
  <2> HIDE DEF e
  <2>3. ASSUME NEW r, r.mine = l.mine, r.e = e, r.pc = "started", l.x \notin resumed PROVE Orderly(r)
    BY <1>1, <2>1, <2>2, <2>3 DEF Orderly
  <2> QED
    BY <1>1, <1>3, <2>1, <2>2, <2>3, StoreBecomes
<1>6. CASE PlanBuilt(i)
  <2> DEFINE m == [l EXCEPT !.ready = StartNodes(l)]
  <2>1. l.pc = "started" /\ Turn(i, m)
    BY <1>6 DEF PlanBuilt, Resumes
  <2>2. StartNodes(l) \subseteq Ids
    BY <1>1, WorkflowAssumption DEF StartNodes, Execution
  <2>3. /\ m \in Loop /\ m.x = l.x /\ m.edges = l.edges /\ m.e = l.e /\ m.mine = l.mine
        /\ m.ready = StartNodes(l)
    BY <1>1, <2>2 DEF Loop
  <2> HIDE DEF m
  <2>4. ASSUME l.x \notin resumed PROVE Poised(m)
    <3> SUFFICES ASSUME l.e.from = None
                 PROVE  /\ m.e.completed = m.mine /\ Sound(m.e.completed, m.edges)
                        /\ \A n \in Nodes : Preds(n, m.edges) \subseteq m.mine => n \in m.ready \union m.e.completed
      BY <2>3 DEF Poised
    <3>1. m.e.completed = {} /\ m.mine = {}
      BY <1>1, <2>1, <2>3, <2>4 DEF Orderly
    <3>2. Sound({}, m.edges)
      BY DEF Sound
    <3>3. m.ready = {n \in Nodes : Preds(n, m.edges) = {}}
      BY <2>3 DEF StartNodes
    <3> QED
      BY <3>1, <3>2, <3>3
  <2>5. l.x \notin resumed => m.e.status = "running"
    BY <1>2, <2>1, <2>3 DEF Working
  <2> QED
    BY <1>3, <2>1, <2>3, <2>4, <2>5, TurnBecomes
<1>7. CASE LooksAgain(i)
  <2>1. l.pc = "sleep" /\ Turn(i, l)
    BY <1>7 DEF LooksAgain, Resumes
  <2>2. l.x \notin resumed => Poised(l)
    BY <1>1, <2>1 DEF Orderly, Poised, Offered, InHand
  <2>3. l.x \notin resumed => l.e.status = "running"
    BY <1>2, <2>1 DEF Working
  <2> QED
    BY <1>1, <1>3, <2>1, <2>2, <2>3, TurnBecomes
<1>8. CASE NodeDone(i)
  <2> DEFINE m == [l EXCEPT !.ready = @ \union Released(l), !.mine = @ \union {l.node}]
  <2>1. l.pc = "noded" /\ Turn(i, m)
    BY <1>8 DEF NodeDone, Resumes
  <2>2. l.node \in Nodes
    BY <2>1 DEF IInv, NodeChosen
  <2>3. Released(l) \subseteq Ids
    <3>1. l.edges \subseteq Ids \X Ids
      BY <1>1, LoopFields, WorkflowAssumption
    <3> QED
      BY <3>1 DEF Released, Succs
  <2>4. l.ready \union Released(l) \subseteq Ids /\ l.mine \union {l.node} \subseteq Nodes
    BY <1>1, <2>2, <2>3, LoopFields
  <2>5. /\ m \in Loop /\ m.x = l.x /\ m.edges = l.edges /\ m.e = l.e
        /\ m.ready = l.ready \union Released(l) /\ m.mine = l.mine \union {l.node}
    BY <1>1, <2>4 DEF Loop
  <2> HIDE DEF m
  <2>6. ASSUME l.x \notin resumed, l.e.from = None
        PROVE  /\ m.e.completed = m.mine /\ Sound(m.e.completed, m.edges)
               /\ \A n \in Nodes : Preds(n, m.edges) \subseteq m.mine => n \in m.ready \union m.e.completed
    <3>1. l.e.completed = l.mine \union {l.node} /\ Sound(l.e.completed, l.edges) /\ Offered(l)
      BY <1>1, <2>1, <2>6 DEF Orderly
    <3>2. ASSUME NEW n \in Nodes, Preds(n, l.edges) \subseteq l.mine \union {l.node}
          PROVE  n \in l.ready \union Released(l) \union l.e.completed
      <4>1. CASE l.node \in Preds(n, l.edges)
        <5>1. n \in Succs(l.node, l.edges)
          BY <4>1 DEF Preds, Succs
        <5> QED
          BY <3>2, <5>1 DEF Released
      <4>2. CASE l.node \notin Preds(n, l.edges)
        BY <2>1, <3>1, <3>2, <4>2 DEF Offered, InHand
      <4> QED
        BY <4>1, <4>2
    <3> QED
      BY <2>5, <3>1, <3>2
  <2>7. l.x \notin resumed => Poised(m)
    BY <2>5, <2>6 DEF Poised
  <2>8. l.x \notin resumed => m.e.status = "running"
    BY <1>2, <2>1, <2>5 DEF Working
  <2> QED
    BY <1>3, <2>1, <2>5, <2>7, <2>8, TurnBecomes
<1>9. CASE NodeExecutes(i)
  <2>1. l.pc = "begun"
    BY <1>9 DEF NodeExecutes, Resumes
  <2>2. CASE Store(i, l, RequestApproval(l.e, l.node), "ending")
    <3>1. RequestApproval(l.e, l.node).status # "completed"
      BY <1>1, CopyFields
    <3> QED
      BY <1>1, <1>3, <1>4, <2>2, <3>1, StoreBecomes
  <2>3. CASE loops' = [loops EXCEPT ![i].pc = "node"] /\ UNCHANGED <<execs, task>>
    <3> DEFINE r == [l EXCEPT !.pc = "node"]
    <3>1. /\ r.x = l.x /\ r.edges = l.edges /\ r.ready = l.ready /\ r.mine = l.mine
          /\ r.node = l.node /\ r.e = l.e /\ r.pc = "node"
      BY <1>1 DEF Loop
    <3>2. loops' = [loops EXCEPT ![i] = r]
      BY <2>3
    <3> HIDE DEF r
    <3>3. l.x \notin resumed => Orderly(r)
      BY <1>1, <2>1, <3>1 DEF Orderly, Offered, InHand
    <3> QED
      BY <1>3, <2>3, <3>1, <3>2, <3>3, StayBecomes
  <2> QED
    BY <1>9, <2>2, <2>3 DEF NodeExecutes
<1>10. CASE NodeReturns(i)
  <2> DEFINE e == CompleteNode(l.e, l.node)
  <2>1. l.pc = "node" /\ Store(i, l, e, "noded")
    BY <1>10 DEF NodeReturns, Resumes
  <2>2. e.status = l.e.status /\ e.from = l.e.from /\ e.completed = l.e.completed \union {l.node}
    BY <1>1, CopyFields
  <2>3. l.node \in Nodes
    BY <2>1 DEF IInv, NodeChosen
  <2> HIDE DEF e
  <2>4. ASSUME NEW r, r.edges = l.edges, r.ready = l.ready, r.mine = l.mine, r.node = l.node,
               r.e = e, r.pc = "noded", l.x \notin resumed
        PROVE  Orderly(r)
    <3> SUFFICES ASSUME l.e.from = None PROVE Orderly(r)
      BY <2>2, <2>4 DEF Orderly
    <3>1. /\ l.e.completed = l.mine /\ Sound(l.e.completed, l.edges) /\ Offered(l)
          /\ Preds(l.node, l.edges) \subseteq l.mine /\ l.node \notin l.mine
      BY <1>1, <2>1, <2>4 DEF Orderly
    <3>2. Sound(e.completed, l.edges)
      BY <2>2, <2>3, <3>1, SoundGrows
    <3>3. Offered(r)
      BY <2>1, <2>2, <2>4, <3>1 DEF Offered, InHand
    <3> QED
      BY <2>2, <2>4, <3>1, <3>2, <3>3 DEF Orderly
  <2>5. l.x \notin resumed => e.status # "completed"
    BY <1>2, <2>1, <2>2 DEF Working
  <2>6. CASE l.x \notin resumed
    BY <1>1, <1>3, <2>1, <2>4, <2>5, <2>6, StoreBecomes
  <2>7. CASE l.x \in resumed
    <3> DEFINE r == [l EXCEPT !.e = e, !.pc = "noded"]
    <3>1. r.x = l.x /\ r.edges = l.edges
      BY <1>1 DEF Loop
    <3>2. loops' = [loops EXCEPT ![i] = r] /\ execs' = [execs EXCEPT ![l.x] = e]
      BY <2>1 DEF Store
    <3> HIDE DEF r
    <3>3. Becomes(i, r, e)
      BY <1>3, <2>7, <3>1, <3>2 DEF Becomes
    <3> QED
      BY <3>3
  <2> QED
    BY <2>6, <2>7
<1>11. CASE NodeRaises(i)
  <2>1. FailE(l.e, {l.node}).status # "completed"
    BY <1>1, CopyFields
  <2> QED
    BY <1>1, <1>3, <1>4, <1>11, <2>1, StoreBecomes DEF NodeRaises
<1>12. CASE LoopCrashes(i)
  <2>1. FailE(l.e, {}).status # "completed"
    BY <1>1, CopyFields
  <2> QED
    BY <1>1, <1>3, <1>4, <1>12, <2>1, StoreBecomes DEF LoopCrashes
<1>13. ASSUME NEW pc \in {"done", "dead"}, loops' = [loops EXCEPT ![i] = Ended(@, pc)], UNCHANGED execs
       PROVE  \E r, e : Becomes(i, r, e)
  <2> DEFINE r == Ended(l, pc)
  <2>1. r.x = l.x /\ r.edges = l.edges /\ r.pc = pc
    BY <1>1 DEF Loop, Ended
  <2>2. loops' = [loops EXCEPT ![i] = r]
    BY <1>13
  <2> HIDE DEF r
  <2>3. Orderly(r)
    BY <1>13, <1>4, <2>1
  <2> QED
    BY <1>3, <1>13, <2>1, <2>2, <2>3, StayBecomes
<1>14. CASE LoopEnds(i)
  BY <1>13, <1>14 DEF LoopEnds, Finally
<1>15. CASE LoopDies(i)
  BY <1>13, <1>15 DEF LoopDies, Finally
<1>16. CASE LoopCancelled(i)
  <2>1. CASE loops' = [loops EXCEPT ![i] = Ended(@, "done")] /\ UNCHANGED execs
    BY <1>13, <2>1
  <2>2. CASE Store(i, [l EXCEPT !.cancelled = FALSE], CancelE(l.e), "closing")
    <3> DEFINE m == [l EXCEPT !.cancelled = FALSE]
    <3>1. m \in Loop /\ m.x = l.x /\ m.edges = l.edges
      BY <1>1 DEF Loop
    <3>2. Store(i, m, CancelE(l.e), "closing")
      BY <2>2
    <3>3. CancelE(l.e).status # "completed"
      BY <1>1, CopyFields
    <3> HIDE DEF m
    <3> QED
      BY <1>3, <1>4, <3>1, <3>2, <3>3, StoreBecomes
  <2> QED
    BY <1>16, <2>1, <2>2 DEF LoopCancelled, Finally
<1> QED
  BY <1>5, <1>6, <1>7, <1>8, <1>9, <1>10, <1>11, <1>12, <1>14, <1>15, <1>16 DEF LoopSteps

\* Two loops with the same locals, but for the request to cancel.
SameLocals(r, l) ==
  /\ r.x = l.x /\ r.e = l.e /\ r.edges = l.edges /\ r.ready = l.ready /\ r.mine = l.mine
  /\ r.node = l.node /\ r.pc = l.pc

\* Being orderly depends on the locals alone.
LEMMA SameOrderly ==
  ASSUME NEW r, NEW l, SameLocals(r, l), Orderly(l)
  PROVE  Orderly(r)
  BY DEF SameLocals, Orderly, Offered, InHand

\* A client stores an execution that is not completed, and creates no loop.
LEMMA ClientKeepsOrder ==
  ASSUME IInv, KInv, DOMAIN loops' = DOMAIN loops, \A i \in DOMAIN loops : SameLocals(loops'[i], loops[i]),
         resumed \subseteq resumed',
         \A x \in DOMAIN execs : execs'[x] = execs[x] \/ execs'[x].status # "completed"
  PROVE  KInv'
<1>1. \A i \in DOMAIN loops : /\ loops'[i].x = loops[i].x /\ loops'[i].edges = loops[i].edges
                              /\ loops[i].x \in DOMAIN execs
  BY KnownTypes DEF SameLocals, IInv
<1>2. ASSUME NEW i \in DOMAIN loops, loops[i].x \notin resumed
      PROVE  Orderly(loops'[i]) /\ Good(execs'[loops[i].x], loops[i].edges)
  BY <1>1, <1>2, SameOrderly DEF KInv, Good
<1> QED
  BY <1>1, <1>2 DEF KInv

\* A call that stores a status other than completed adds no outcome that Good
\* speaks of.
LEMMA StoredBy ==
  ASSUME NEW x \in DOMAIN execs, NEW e, e.status # "completed", execs' = [execs EXCEPT ![x] = e]
  PROVE  \A y \in DOMAIN execs : execs'[y] = execs[y] \/ execs'[y].status # "completed"
  OBVIOUS

\* Loops that a call does not touch keep their locals.
LEMMA SameLoops ==
  ASSUME loops' = loops
  PROVE  DOMAIN loops' = DOMAIN loops /\ \A i \in DOMAIN loops : SameLocals(loops'[i], loops[i])
  BY DEF SameLocals

\* A new execution comes with a loop at its very start.
LEMMA LaunchKeepsOrder ==
  ASSUME IInv, KInv, Exists, NEW from \in Points, Launch(from)
  PROVE  KInv'
<1> DEFINE e == NewExecution(from)
           x == Len(execs) + 1
           r == NewLoop(x, e)
           n == Len(loops) + 1
<1>1. /\ TypeOK /\ Len(execs) \in Nat /\ DOMAIN execs = 1..Len(execs) /\ MaxExecs \in Nat
      /\ Len(loops) \in Nat /\ DOMAIN loops = 1..Len(loops)
      /\ \A i \in DOMAIN loops : loops[i].x \in DOMAIN execs
      /\ resumed \subseteq DOMAIN execs /\ execs \in Seq(Execution) /\ loops \in Seq(Loop)
  BY KnownTypes DEF IInv, TypeOK
<1>2. /\ x <= MaxExecs /\ execs' = Append(execs, e) /\ loops' = Append(loops, r) /\ resumed' = resumed
  BY DEF Launch
<1>3. e \in Execution /\ e.status = "pending" /\ e.completed = {}
  BY NewCopies
<1>4. r.x = x /\ r.e = e /\ r.pc = "new" /\ r.mine = {}
  BY DEF NewLoop
<1> HIDE DEF e, r
<1>5. x \notin DOMAIN execs /\ x \in Nat
  BY <1>1
<1>6. execs'[x] = e /\ \A y \in DOMAIN execs : execs'[y] = execs[y]
  BY <1>1, <1>2
<1>7. DOMAIN loops' = DOMAIN loops \union {n} /\ loops'[n] = r /\ n \notin DOMAIN loops
      /\ \A i \in DOMAIN loops : loops'[i] = loops[i]
  BY <1>1, <1>2
<1>8. Orderly(r) /\ Good(e, r.edges)
  BY <1>3, <1>4 DEF Orderly, Good
<1> HIDE DEF x, n
<1>9. \A i, j \in DOMAIN loops' : loops'[i].x = loops'[j].x /\ loops'[i].x \notin resumed => i = j
  BY <1>1, <1>4, <1>5, <1>7 DEF KInv
<1>10. \A i \in DOMAIN loops' :
         loops'[i].x \notin resumed => Orderly(loops'[i]) /\ Good(execs'[loops'[i].x], loops'[i].edges)
  BY <1>1, <1>4, <1>6, <1>7, <1>8 DEF KInv
<1> QED
  BY <1>2, <1>9, <1>10 DEF KInv

\* resume_execution marks its execution as resumed: KInv says nothing of it
\* from then on.
LEMMA ResumeKeepsOrder ==
  ASSUME IInv, KInv, NEW x \in DOMAIN execs, ResumeExecution(x)
  PROVE  KInv'
<1> DEFINE e == StartE(execs[x])
           r == NewLoop(x, e)
           n == Len(loops) + 1
<1>1. /\ execs[x] \in Execution /\ Len(loops) \in Nat /\ DOMAIN loops = 1..Len(loops) /\ loops \in Seq(Loop)
      /\ \A i \in DOMAIN loops : loops[i].x \in DOMAIN execs
  BY KnownTypes DEF IInv, TypeOK
<1>2. execs' = [execs EXCEPT ![x] = e] /\ resumed' = resumed \union {x}
  BY DEF ResumeExecution
<1>3. e.status # "completed"
  BY <1>1, CopyFields
<1>4. r.x = x
  BY DEF NewLoop
<1>5. CASE UNCHANGED loops
  BY <1>2, <1>3, <1>5, SameLoops, StoredBy, ClientKeepsOrder
<1>6. CASE loops' = Append(loops, r)
  <2> HIDE DEF e, r
  <2>1. DOMAIN loops' = DOMAIN loops \union {n} /\ loops'[n] = r /\ \A i \in DOMAIN loops : loops'[i] = loops[i]
    BY <1>1, <1>6
  <2>2. \A y \in DOMAIN execs \ {x} : execs'[y] = execs[y]
    BY <1>2
  <2> HIDE DEF n
  <2>3. \A i, j \in DOMAIN loops' : loops'[i].x = loops'[j].x /\ loops'[i].x \notin resumed' => i = j
    BY <1>2, <1>4, <2>1 DEF KInv
  <2>4. \A i \in DOMAIN loops' :
          loops'[i].x \notin resumed' => Orderly(loops'[i]) /\ Good(execs'[loops'[i].x], loops'[i].edges)
    BY <1>1, <1>2, <1>4, <2>1, <2>2 DEF KInv
  <2> QED
    BY <2>3, <2>4 DEF KInv
<1> QED
  BY <1>5, <1>6 DEF ResumeExecution

\* cancel_execution sets a flag of the loop and nothing that KInv reads.
LEMMA CancelKeepsOrder ==
  ASSUME IInv, KInv, NEW x \in DOMAIN execs, CancelExecution(x)
  PROVE  KInv'
<1>1. execs[x] \in Execution /\ \A i \in DOMAIN loops : loops[i] \in Loop
  BY KnownTypes DEF IInv
<1>2. resumed' = resumed
  BY DEF CancelExecution
<1>3. CASE execs' = [execs EXCEPT ![x] = CancelE(@)] /\ UNCHANGED loops
  <2>1. CancelE(execs[x]).status # "completed"
    BY <1>1, CopyFields
  <2>2. execs' = [execs EXCEPT ![x] = CancelE(execs[x])]
    BY <1>3
  <2> QED
    BY <1>2, <1>3, <2>1, <2>2, SameLoops, StoredBy, ClientKeepsOrder
<1>4. CASE loops' = [loops EXCEPT ![task[x]].cancelled = TRUE] /\ UNCHANGED execs
  <2>1. \A i \in DOMAIN loops : loops'[i] = loops[i] \/ loops'[i] = [loops[i] EXCEPT !.cancelled = TRUE]
    BY <1>4
  <2>2. \A l \in Loop : SameLocals([l EXCEPT !.cancelled = TRUE], l) /\ SameLocals(l, l)
    BY DEF Loop, SameLocals
  <2>3. \A i \in DOMAIN loops : SameLocals(loops'[i], loops[i])
    BY <1>1, <2>1, <2>2
  <2>4. DOMAIN loops' = DOMAIN loops
    BY <1>4
  <2> QED
    BY <1>2, <1>4, <2>3, <2>4, ClientKeepsOrder
<1> QED
  BY <1>3, <1>4 DEF CancelExecution

\* Every step keeps KInv.
LEMMA NextKeepsOrder ==
  ASSUME IInv, KInv, [Next]_vars
  PROVE  KInv'
<1>1. ASSUME UNCHANGED <<execs, loops, resumed>> PROVE KInv'
  BY <1>1 DEF KInv
<1>2. ASSUME NEW g \in Graphs, CreateWorkflow(g) \/ UpdateWorkflow(g)
      PROVE  KInv'
  BY <1>1, <1>2 DEF CreateWorkflow, UpdateWorkflow
<1>3. CASE Activate \/ DeleteWorkflow
  BY <1>1, <1>3 DEF Activate, DeleteWorkflow
<1>4. ASSUME NEW from \in Points, ExecuteWorkflow(from) \/ ReplayWorkflow(from)
      PROVE  KInv'
  BY <1>4, LaunchKeepsOrder DEF ExecuteWorkflow, ReplayWorkflow, Exists
<1>5. ASSUME NEW n \in Gates, NEW approved \in BOOLEAN, ApproveWorkflow(n, approved) PROVE KInv'
  <2>1. PICK x \in DOMAIN execs : execs' = [execs EXCEPT ![x] = DecideApproval(@, n, approved)]
    BY <1>5 DEF ApproveWorkflow
  <2>2. execs[x] \in Execution
    BY KnownTypes DEF IInv
  <2>3. DecideApproval(execs[x], n, approved).status # "completed"
    BY <2>2, CopyFields
  <2>4. execs' = [execs EXCEPT ![x] = DecideApproval(execs[x], n, approved)]
    BY <2>1
  <2>5. UNCHANGED <<loops, resumed>>
    BY <1>5 DEF ApproveWorkflow
  <2> QED
    BY <2>3, <2>4, <2>5, SameLoops, StoredBy, ClientKeepsOrder
<1>6. ASSUME NEW x \in DOMAIN execs, PauseExecution(x) PROVE KInv'
  <2>1. execs[x] \in Execution
    BY KnownTypes DEF IInv
  <2>2. PauseE(execs[x]).status # "completed"
    BY <2>1, CopyFields
  <2>3. execs' = [execs EXCEPT ![x] = PauseE(execs[x])] /\ UNCHANGED <<loops, resumed>>
    BY <1>6 DEF PauseExecution
  <2> QED
    BY <2>2, <2>3, SameLoops, StoredBy, ClientKeepsOrder
<1>7. ASSUME NEW c \in cancellers, CancelReturns(c) PROVE KInv'
  <2>1. c.e \in Execution /\ c.x \in DOMAIN execs
    BY DEF IInv, TypeOK
  <2>2. CancelE(c.e).status # "completed"
    BY <2>1, CopyFields
  <2>3. UNCHANGED <<loops, resumed>> /\ (execs' = [execs EXCEPT ![c.x] = CancelE(c.e)] \/ UNCHANGED execs)
    BY <1>7 DEF CancelReturns
  <2>4. CASE execs' = [execs EXCEPT ![c.x] = CancelE(c.e)]
    BY <2>1, <2>2, <2>3, <2>4, SameLoops, StoredBy, ClientKeepsOrder
  <2>5. CASE UNCHANGED execs
    BY <1>1, <2>3, <2>5
  <2> QED
    BY <2>3, <2>4, <2>5
<1>8. ASSUME NEW i \in DOMAIN loops, LoopSteps(i) PROVE KInv'
  BY <1>8, LoopStepBecomes, BecomesKeeps
<1>9. CASE UNCHANGED vars
  BY <1>1, <1>9 DEF vars
<1>10. ASSUME NEW x \in DOMAIN execs, CancelExecution(x) \/ ResumeExecution(x) PROVE KInv'
  BY <1>10, CancelKeepsOrder, ResumeKeepsOrder
<1> QED
  BY <1>2, <1>3, <1>4, <1>5, <1>6, <1>7, <1>8, <1>9, <1>10 DEF Next

\* KInv is an invariant.
LEMMA OrderHolds == Spec => []KInv
<1>1. Init => KInv
  BY DEF Init, KInv
<1> QED
  BY <1>1, NextKeepsOrder, Invariance, PTL DEF Spec

\* CompletesValidGraphs is an invariant: an execution that _run_execution
\* takes from the start, and that nobody resumes, completes every node of a
\* graph that validate_workflow accepts, and has completed all of them only
\* when the graph can be sorted.  The order in which the loop picks ready
\* nodes, failures, pauses, approvals and cancellations in between make no
\* difference.
THEOREM ValidGraphsComplete == Spec => []CompletesValidGraphs
<1>1. KInv => CompletesValidGraphs
  BY DEF KInv, Good, CompletesValidGraphs, IsValid
<1> QED
  BY <1>1, OrderHolds, PTL

(***************************************************************************)
(* Pipelines: retries                                                      *)
(***************************************************************************)
\* The awaits during the execution of a stage; there the task has one.
OnStage == {"begun", "stage", "staged", "failing", "delay"}

\* Where no stage is under way, executed stages are completed; the one under
\* way may not be.  A stage was executed at most once more often than the
\* task's copy counts retries, and no more often when it is to be executed.
Counted(l) ==
  /\ l.pc \in OnStage => l.stage \in PStages
  /\ l.pc \notin {"done", "dead"} => \A s \in PStages : l.runs[s] <= l.e.retries[s] + 1
  /\ l.pc = "new" => \A s \in PStages : l.runs[s] = 0
  /\ l.pc \in {"started", "sleep", "staged"} => \A s \in PStages : l.runs[s] > 0 => s \in l.e.completed
  /\ l.pc \in {"begun", "stage", "failing", "delay"} =>
       \A s \in PStages \ {l.stage} : l.runs[s] > 0 => s \in l.e.completed
  /\ l.pc = "begun" => l.runs[l.stage] <= l.e.retries[l.stage]
  /\ l.pc = "delay" => l.e.retries[l.stage] < StageRetries

\* Every task is counted.
TasksCounted == \A i \in DOMAIN ptasks : Counted(ptasks[i])

\* The inductive invariant of the retries.
PInv == PipelineTypeOK /\ TasksCounted /\ RetryPolicyKept

----------------------------------------------------------------------------
\* Executions and tasks are of their types.
LEMMA PTypes ==
  ASSUME PipelineTypeOK
  PROVE  /\ Len(pexecs) \in Nat /\ DOMAIN pexecs = 1..Len(pexecs) /\ DOMAIN pexecs \subseteq 1..MaxPExecs
         /\ Len(ptasks) \in Nat /\ DOMAIN ptasks = 1..Len(ptasks) /\ DOMAIN ptasks \subseteq 1..MaxPTasks
         /\ pexecs \in Seq(PExecution) /\ ptasks \in Seq(PTask)
         /\ \A x \in DOMAIN pexecs : pexecs[x] \in PExecution
         /\ \A i \in DOMAIN ptasks : ptasks[i] \in PTask /\ ptasks[i].x \in DOMAIN pexecs
         /\ MaxPExecs \in Nat /\ MaxPTasks \in Nat /\ StageRetries \in Nat
<1>1. MaxPExecs \in Nat /\ MaxPTasks \in Nat /\ StageRetries \in Nat
  BY PipelineAssumption
<1>2. pexecs \in Seq(PExecution) /\ Len(pexecs) <= MaxPExecs
  BY DEF PipelineTypeOK
<1>3. ptasks \in Seq(PTask) /\ Len(ptasks) <= MaxPTasks /\ \A i \in DOMAIN ptasks : ptasks[i].x \in DOMAIN pexecs
  BY DEF PipelineTypeOK
<1>4. /\ Len(pexecs) \in Nat /\ DOMAIN pexecs = 1..Len(pexecs) /\ DOMAIN pexecs \subseteq 1..MaxPExecs
      /\ \A x \in DOMAIN pexecs : pexecs[x] \in PExecution
  BY <1>1, <1>2
<1>5. /\ Len(ptasks) \in Nat /\ DOMAIN ptasks = 1..Len(ptasks) /\ DOMAIN ptasks \subseteq 1..MaxPTasks
      /\ \A i \in DOMAIN ptasks : ptasks[i] \in PTask /\ ptasks[i].x \in DOMAIN pexecs
  BY <1>1, <1>3
<1> QED
  BY <1>1, <1>2, <1>3, <1>4, <1>5

\* The fields of a task.
LEMMA PTaskFields ==
  ASSUME NEW l \in PTask
  PROVE  /\ l.x \in 1..MaxPExecs /\ l.e \in PExecution /\ l.graph \in PipelineGraphs
         /\ l.ready \subseteq PStages /\ l.mine \subseteq PStages /\ l.runs \in [PStages -> Nat]
         /\ l.stage \in PStages \union {NoStage} /\ l.pc \in PTaskPC /\ l.cancelled \in BOOLEAN
         /\ l.e.completed \subseteq PStages /\ l.e.failed \subseteq PStages
         /\ l.e.retries \in [PStages -> 0..StageRetries]
BY DEF PTask, PExecution

\* The copies a task stores.
LEMMA PCopies ==
  ASSUME NEW e \in PExecution, NEW s \in PStages,
         NEW st \in {"pending", "running", "paused", "completed", "failed", "cancelled"}
  PROVE  /\ PWith(e, st) \in PExecution /\ PWith(e, st).completed = e.completed
         /\ PWith(e, st).retries = e.retries
         /\ CompleteStage(e, s) \in PExecution /\ CompleteStage(e, s).completed = e.completed \union {s}
         /\ CompleteStage(e, s).retries = e.retries
         /\ FailStage(e, s) \in PExecution /\ FailStage(e, s).completed = e.completed
         /\ FailStage(e, s).retries = e.retries
BY DEF PExecution, PWith, CompleteStage, FailStage

\* A new execution has retried nothing.
LEMMA PFresh == NewPExecution \in PExecution /\ \A s \in PStages : NewPExecution.retries[s] = 0
<1>1. 0 \in 0..StageRetries
  BY PipelineAssumption
<1> QED
  BY <1>1 DEF NewPExecution, PExecution

\* A task changes its locals to r and its execution to e, and may remove the
\* entry of its execution.
LEMMA TaskMoves ==
  ASSUME PInv, NEW i \in DOMAIN ptasks, NEW r \in PTask, NEW e \in PExecution,
         r.x = ptasks[i].x, Counted(r),
         r.pc \in {"done", "dead"} => r.runs = ptasks[i].runs,
         ptasks' = [ptasks EXCEPT ![i] = r],
         pexecs' = [pexecs EXCEPT ![r.x] = e],
         UNCHANGED ptask \/ ptask' = [ptask EXCEPT ![r.x] = 0],
         PipelineFrame, disturbed' \subseteq disturbed \union {r.x}
  PROVE  PInv'
<1>1. PipelineTypeOK /\ ptasks[i].x \in DOMAIN pexecs
  BY PTypes DEF PInv
<1>2. /\ pexecs \in Seq(PExecution) /\ ptasks \in Seq(PTask) /\ StageRetries \in Nat
      /\ DOMAIN pexecs \subseteq 1..MaxPExecs /\ Len(ptasks) \in Nat /\ MaxPTasks \in Nat
  BY <1>1, PTypes
<1>3. /\ pexecs' \in Seq(PExecution) /\ Len(pexecs') = Len(pexecs) /\ DOMAIN pexecs' = DOMAIN pexecs
  BY <1>1, <1>2
<1>4. /\ ptasks' \in Seq(PTask) /\ Len(ptasks') = Len(ptasks) /\ DOMAIN ptasks' = DOMAIN ptasks
      /\ ptasks'[i] = r /\ \A j \in DOMAIN ptasks \ {i} : ptasks'[j] = ptasks[j]
  BY <1>2
<1>5. ptask' \in [1..MaxPExecs -> 0..MaxPTasks] /\ \A x \in DOMAIN ptask' : ptask'[x] <= Len(ptasks)
  <2>1. /\ ptask \in [1..MaxPExecs -> 0..MaxPTasks] /\ 0 \in 0..MaxPTasks /\ 0 <= Len(ptasks)
        /\ \A x \in 1..MaxPExecs : ptask[x] <= Len(ptasks)
    BY <1>1, <1>2 DEF PipelineTypeOK
  <2>2. CASE UNCHANGED ptask
    BY <2>1, <2>2
  <2>3. CASE ptask' = [ptask EXCEPT ![r.x] = 0]
    BY <2>1, <2>3
  <2> QED
    BY <2>2, <2>3
<1>6. PipelineTypeOK'
  <2>1. \A j \in DOMAIN ptasks' : ptasks'[j].x \in DOMAIN pexecs'
    BY <1>1, <1>3, <1>4, PTypes
  <2>2. disturbed' \subseteq DOMAIN pexecs'
    BY <1>1, <1>3 DEF PipelineTypeOK
  <2> QED
    BY <1>1, <1>3, <1>4, <1>5, <2>1, <2>2 DEF PipelineTypeOK, PipelineFrame
<1>7. TasksCounted'
  BY <1>4 DEF PInv, TasksCounted
<1>8. \A s \in PStages : r.runs[s] <= StageRetries + 1
  <2>1. CASE r.pc \in {"done", "dead"}
    BY <2>1 DEF PInv, RetryPolicyKept
  <2>2. CASE r.pc \notin {"done", "dead"}
    <3> TAKE s \in PStages
    <3>1. r.runs[s] \in Nat /\ r.e.retries[s] \in 0..StageRetries
      BY PTaskFields
    <3>2. r.runs[s] <= r.e.retries[s] + 1
      BY <2>2 DEF Counted
    <3> QED
      BY SMTT(30), <1>2, <3>1, <3>2
  <2> QED
    BY <2>1, <2>2
<1>9. RetryPolicyKept'
  BY <1>4, <1>8 DEF PInv, RetryPolicyKept
<1> QED
  BY <1>6, <1>7, <1>9 DEF PInv

\* A task stores e and goes on at pc; l are its locals by then.
LEMMA PStored ==
  ASSUME PInv, NEW i \in DOMAIN ptasks, NEW l \in PTask, NEW e \in PExecution,
         NEW pc \in PTaskPC \ {"done", "dead"}, l.x = ptasks[i].x, PStore(i, l, e, pc),
         Counted([l EXCEPT !.e = e, !.pc = pc]),
         PipelineFrame, disturbed' \subseteq disturbed \union {l.x}
  PROVE  PInv'
<1> DEFINE r == [l EXCEPT !.e = e, !.pc = pc]
<1>1. r \in PTask /\ r.x = l.x /\ r.pc = pc
  BY DEF PTask
<1>2. /\ ptasks' = [ptasks EXCEPT ![i] = r] /\ pexecs' = [pexecs EXCEPT ![l.x] = e] /\ UNCHANGED ptask
      /\ Counted(r)
  BY DEF PStore
<1> HIDE DEF r
<1> QED
  BY ONLY PInv, i \in DOMAIN ptasks, e \in PExecution, pc \in PTaskPC \ {"done", "dead"}, l.x = ptasks[i].x,
     PipelineFrame, disturbed' \subseteq disturbed \union {l.x}, <1>1, <1>2, TaskMoves

\* The facts of the invariant about one task.
LEMMA PFinds ==
  ASSUME PInv, NEW i \in DOMAIN ptasks
  PROVE  /\ ptasks[i] \in PTask /\ ptasks[i].x \in DOMAIN pexecs /\ Counted(ptasks[i])
         /\ pexecs[ptasks[i].x] \in PExecution
         /\ pexecs = [pexecs EXCEPT ![ptasks[i].x] = pexecs[ptasks[i].x]]
<1>1. PipelineTypeOK
  BY DEF PInv
<1>2. ptasks[i] \in PTask /\ ptasks[i].x \in DOMAIN pexecs /\ pexecs[ptasks[i].x] \in PExecution
  BY <1>1, PTypes
<1>3. pexecs \in Seq(PExecution)
  BY <1>1, PTypes
<1>4. pexecs = [pexecs EXCEPT ![ptasks[i].x] = pexecs[ptasks[i].x]]
  BY <1>2, <1>3
<1> QED
  BY <1>2, <1>4 DEF PInv, TasksCounted

\* Locals between two awaits: counted, and executed stages are completed.
Between(l) == \A s \in PStages : /\ l.runs[s] <= l.e.retries[s] + 1
                                 /\ l.runs[s] > 0 => s \in l.e.completed

\* The end of a run keeps the invariant.
LEMMA PFinalizes ==
  ASSUME PInv, NEW i \in DOMAIN ptasks, NEW l \in PTask, l.x = ptasks[i].x,
         \A s \in PStages : l.runs[s] <= l.e.retries[s] + 1,
         Finalize(i, l), QuietFrame
  PROVE  PInv'
<1> DEFINE st == IF l.e.failed # {} THEN "failed" ELSE "completed"
<1> DEFINE e == PWith(l.e, st)
<1>1. l.e \in PExecution
  BY PTaskFields
<1>2. e \in PExecution /\ e.retries = l.e.retries
  BY <1>1 DEF PExecution, PWith
<1>3. PStore(i, l, e, "ending")
  BY DEF Finalize
<1>4. "ending" \in PTaskPC \ {"done", "dead"}
  BY DEF PTaskPC
<1> HIDE DEF e
<1>5. Counted([l EXCEPT !.e = e, !.pc = "ending"])
  BY <1>2 DEF Counted, PTask, OnStage
<1>6. PipelineFrame /\ disturbed' \subseteq disturbed \union {l.x}
  BY DEF QuietFrame
<1> QED
  BY ONLY PInv, i \in DOMAIN ptasks, l \in PTask, l.x = ptasks[i].x, <1>2, <1>3, <1>4, <1>5, <1>6, PStored

\* The beginning of a stage counts one run more than the retries before it.
LEMMA PBegins ==
  ASSUME PInv, NEW i \in DOMAIN ptasks, NEW l \in PTask, l.x = ptasks[i].x, NEW s \in PStages,
         \A t \in PStages : l.runs[t] <= l.e.retries[t] + 1,
         \A t \in PStages \ {s} : l.runs[t] > 0 => t \in l.e.completed,
         l.runs[s] <= l.e.retries[s],
         BeginStage(i, l, s), QuietFrame
  PROVE  PInv'
<1> DEFINE m == [l EXCEPT !.ready = @ \ {s}, !.stage = s]
<1>1. m \in PTask /\ m.x = ptasks[i].x /\ m.stage = s /\ m.e = l.e /\ m.runs = l.runs /\ l.e \in PExecution
  BY DEF PTask
<1>2. PStore(i, m, l.e, "begun")
  BY DEF BeginStage
<1>3. "begun" \in PTaskPC \ {"done", "dead"}
  BY DEF PTaskPC
<1> HIDE DEF m
<1>4. Counted([m EXCEPT !.e = l.e, !.pc = "begun"])
  BY <1>1 DEF Counted, PTask, OnStage
<1>5. PipelineFrame /\ disturbed' \subseteq disturbed \union {m.x}
  BY DEF QuietFrame
<1> QED
  BY ONLY PInv, i \in DOMAIN ptasks, <1>1, <1>2, <1>3, <1>4, <1>5, PStored

\* A turn of the run loop keeps the invariant.
LEMMA PTurns ==
  ASSUME PInv, NEW i \in DOMAIN ptasks, NEW l \in PTask, l.x = ptasks[i].x, Between(l),
         PTurn(i, l), QuietFrame
  PROVE  PInv'
<1> DEFINE open == l.ready \ l.e.completed
           m == [l EXCEPT !.ready = open]
           r == [l EXCEPT !.ready = open, !.pc = "sleep"]
<1>1. open \subseteq PStages /\ l.e \in PExecution
  BY PTaskFields
<1>2. m \in PTask /\ m.x = l.x /\ m.e = l.e /\ m.runs = l.runs
  BY DEF PTask
<1>3. r \in PTask /\ r.x = l.x /\ r.e = l.e /\ r.runs = l.runs /\ r.pc = "sleep"
  BY DEF PTask, PTaskPC
<1>4. CASE Finalize(i, l)
  BY <1>4, PFinalizes DEF Between
<1>5. ASSUME NEW s \in open, BeginStage(i, m, s)
      PROVE  PInv'
  <2>1. s \in PStages /\ s \notin l.e.completed
    BY <1>1
  <2>2. l.runs[s] \in Nat /\ l.e.retries[s] \in Nat
    BY <2>1, PTaskFields, PTypes DEF PInv
  <2>3. m.runs[s] <= m.e.retries[s]
    BY <1>2, <2>1, <2>2 DEF Between
  <2>4. /\ \A t \in PStages : m.runs[t] <= m.e.retries[t] + 1
        /\ \A t \in PStages \ {s} : m.runs[t] > 0 => t \in m.e.completed
    BY <1>2 DEF Between
  <2> HIDE DEF m, open
  <2> QED
    BY ONLY PInv, i \in DOMAIN ptasks, l.x = ptasks[i].x, QuietFrame, <1>2, <1>5, <2>1, <2>3, <2>4, PBegins
<1>6. CASE /\ ptasks' = [ptasks EXCEPT ![i] = r]
           /\ pexecs' = IF l.e = ptasks[i].e THEN pexecs ELSE [pexecs EXCEPT ![l.x] = l.e]
           /\ UNCHANGED ptask
  <2>1. PICK e \in PExecution : pexecs' = [pexecs EXCEPT ![r.x] = e]
    BY <1>1, <1>3, <1>6, PFinds
  <2>2. Counted(r)
    BY <1>3 DEF Counted, Between, OnStage
  <2>3. PipelineFrame /\ disturbed' \subseteq disturbed \union {r.x}
    BY DEF QuietFrame
  <2>4. r.x = ptasks[i].x /\ (r.pc \in {"done", "dead"} => r.runs = ptasks[i].runs)
    BY <1>3
  <2>5. ptasks' = [ptasks EXCEPT ![i] = r] /\ UNCHANGED ptask
    BY <1>6
  <2> HIDE DEF r
  <2> QED
    BY ONLY PInv, i \in DOMAIN ptasks, <1>3, <2>1, <2>2, <2>3, <2>4, <2>5, TaskMoves
<1> QED
  BY <1>4, <1>5, <1>6 DEF PTurn

\* A task stores a copy of its execution with the same retries at the end of
\* what it does there.
LEMMA PStatusStored ==
  ASSUME PInv, NEW i \in DOMAIN ptasks, NEW l \in PTask,
         l.x = ptasks[i].x, l.e = ptasks[i].e, l.runs = ptasks[i].runs,
         ptasks[i].pc \notin {"done", "dead"},
         NEW st \in {"failed", "cancelled"},
         PStore(i, l, PWith(ptasks[i].e, st), "closing"),
         PipelineFrame, disturbed' \subseteq disturbed \union {l.x}
  PROVE  PInv'
<1> DEFINE e == PWith(ptasks[i].e, st)
<1>1. ptasks[i] \in PTask /\ Counted(ptasks[i])
  BY PFinds
<1>2. e \in PExecution /\ e.retries = l.e.retries
  BY <1>1, PTaskFields DEF PExecution, PWith
<1>3. PStore(i, l, e, "closing")
  OBVIOUS
<1>4. "closing" \in PTaskPC \ {"done", "dead"}
  BY DEF PTaskPC
<1> HIDE DEF e
<1>5. \A s \in PStages : l.runs[s] <= e.retries[s] + 1
  BY <1>1, <1>2 DEF Counted
<1>6. Counted([l EXCEPT !.e = e, !.pc = "closing"])
  BY <1>5 DEF Counted, PTask, OnStage
<1> QED
  BY ONLY PInv, i \in DOMAIN ptasks, l \in PTask, l.x = ptasks[i].x, <1>2, <1>3, <1>4, <1>6,
     PipelineFrame, disturbed' \subseteq disturbed \union {l.x}, PStored

\* A task ends.
LEMMA PEnds ==
  ASSUME PInv, NEW i \in DOMAIN ptasks, NEW pc \in {"done", "dead"},
         ptasks' = [ptasks EXCEPT ![i] = PEnded(@, pc)], UNCHANGED pexecs,
         UNCHANGED ptask \/ ptask' = [ptask EXCEPT ![ptasks[i].x] = 0],
         PipelineFrame, disturbed' \subseteq disturbed \union {ptasks[i].x}
  PROVE  PInv'
<1> DEFINE r == PEnded(ptasks[i], pc)
<1>1. /\ ptasks[i] \in PTask /\ pexecs[ptasks[i].x] \in PExecution
      /\ pexecs = [pexecs EXCEPT ![ptasks[i].x] = pexecs[ptasks[i].x]]
  BY PFinds
<1>2. r \in PTask /\ r.x = ptasks[i].x /\ r.runs = ptasks[i].runs /\ r.pc = pc
  BY <1>1, PFresh DEF PTask, PEnded, PTaskPC
<1>3. ptasks' = [ptasks EXCEPT ![i] = r]
  BY DEF PEnded
<1> HIDE DEF r
<1>4. Counted(r)
  BY <1>2 DEF Counted, OnStage
<1>5. /\ pexecs' = [pexecs EXCEPT ![r.x] = pexecs[ptasks[i].x]]
      /\ UNCHANGED ptask \/ ptask' = [ptask EXCEPT ![r.x] = 0]
      /\ disturbed' \subseteq disturbed \union {r.x}
  BY <1>1, <1>2
<1> QED
  BY ONLY PInv, i \in DOMAIN ptasks, PipelineFrame, <1>1, <1>2, <1>3, <1>4, <1>5, TaskMoves

\* A task goes on with other locals and stores nothing.
LEMMA PMoves ==
  ASSUME PInv, NEW i \in DOMAIN ptasks, NEW r \in PTask, r.x = ptasks[i].x, Counted(r),
         r.pc \notin {"done", "dead"}, ptasks' = [ptasks EXCEPT ![i] = r],
         UNCHANGED <<pexecs, ptask>>, QuietFrame
  PROVE  PInv'
<1>1. /\ pexecs[r.x] \in PExecution /\ pexecs' = [pexecs EXCEPT ![r.x] = pexecs[r.x]] /\ UNCHANGED ptask
  BY PFinds
<1>2. PipelineFrame /\ disturbed' \subseteq disturbed \union {r.x}
  BY DEF QuietFrame
<1> QED
  BY ONLY PInv, i \in DOMAIN ptasks, r \in PTask, r.x = ptasks[i].x, Counted(r),
     r.pc \notin {"done", "dead"}, ptasks' = [ptasks EXCEPT ![i] = r], <1>1, <1>2, TaskMoves

\* One step of task i.
LEMMA PTaskKeeps ==
  ASSUME PInv, NEW i \in DOMAIN ptasks, PTaskSteps(i)
  PROVE  PInv'
<1> DEFINE l == ptasks[i]
<1>1. /\ l \in PTask /\ Counted(l)
  BY PFinds
<1>2. /\ l.e \in PExecution /\ l.runs \in [PStages -> Nat] /\ l.stage \in PStages \union {NoStage}
      /\ l.e.retries \in [PStages -> 0..StageRetries] /\ l.e.completed \subseteq PStages
      /\ l.ready \subseteq PStages /\ l.mine \subseteq PStages /\ l.graph \in PipelineGraphs
  BY <1>1, PTaskFields
<1>3. StageRetries \in Nat
  BY PipelineAssumption
<1>4. QuietFrame => PipelineFrame /\ disturbed' \subseteq disturbed \union {l.x}
  BY DEF QuietFrame
<1>5. l.graph.stages \subseteq PStages /\ l.graph.edges \subseteq PStages \X PStages
  BY <1>2, PipelineAssumption
<1>6. l.pc \in OnStage => l.stage \in PStages
  BY <1>1 DEF Counted
<1> HIDE DEF l
<1>s. CASE PTaskStarts(i)
  <2> DEFINE e == PWith(l.e, "running")
             r == [l EXCEPT !.e = e, !.pc = "started"]
  <2>1. e \in PExecution /\ e.retries = l.e.retries /\ e.completed = l.e.completed
    BY <1>2 DEF PExecution, PWith
  <2>2. PStore(i, l, e, "started") /\ QuietFrame /\ l.pc = "new"
    BY <1>s DEF PTaskStarts, PResumes, l
  <2> HIDE DEF e
  <2>3. Counted(r)
    BY <1>1, <1>2, <2>1, <2>2 DEF Counted, PTask, OnStage
  <2>4. "started" \in PTaskPC \ {"done", "dead"} /\ l.x = ptasks[i].x
    BY DEF PTaskPC, l
  <2> QED
    BY ONLY PInv, i \in DOMAIN ptasks, <1>1, <1>4, <2>1, <2>2, <2>3, <2>4, PStored
<1>t. CASE PTaskTurns(i)
  <2> DEFINE m == [l EXCEPT !.ready = {s \in l.graph.stages : Upstream(s, l.graph) = {}}]
  <2>1. QuietFrame /\ l.x = ptasks[i].x
    BY <1>t DEF PTaskTurns, l
  <2>2. CASE l.pc = "started" /\ PTurn(i, m)
    <3>1. m \in PTask /\ m.x = l.x /\ m.e = l.e /\ m.runs = l.runs
      BY <1>1, <1>5 DEF PTask
    <3> HIDE DEF m
    <3>2. Between(m)
      BY <1>1, <2>2, <3>1 DEF Between, Counted
    <3> QED
      BY ONLY PInv, i \in DOMAIN ptasks, <2>1, <2>2, <3>1, <3>2, PTurns
  <2>3. CASE l.pc = "sleep" /\ PTurn(i, l)
    <3>1. Between(l)
      BY <1>1, <2>3 DEF Between, Counted
    <3> QED
      BY ONLY PInv, i \in DOMAIN ptasks, <1>1, <2>1, <2>3, <3>1, PTurns
  <2> QED
    BY <1>t, <2>2, <2>3 DEF PTaskTurns, PResumes, l
<1>e. CASE StageExecutes(i)
  <2> DEFINE r == [l EXCEPT !.pc = "stage", !.runs[l.stage] = @ + 1]
  <2>1. /\ l.pc = "begun" /\ l.x = ptasks[i].x
        /\ ptasks' = [ptasks EXCEPT ![i] = r] /\ UNCHANGED <<pexecs, ptask>> /\ QuietFrame
    BY <1>e DEF StageExecutes, PResumes, l
  <2>2. l.stage \in PStages
    BY <1>6, <2>1 DEF OnStage
  <2>3. /\ r \in PTask /\ r.x = l.x /\ r.pc = "stage" /\ r.e = l.e /\ r.stage = l.stage
        /\ r.runs = [l.runs EXCEPT ![l.stage] = @ + 1]
    <3> DEFINE q == [l.runs EXCEPT ![l.stage] = @ + 1]
    <3>1. l.runs[l.stage] + 1 \in Nat
      BY <1>2, <2>2
    <3>2. q \in [PStages -> Nat]
      BY <1>2, <2>2, <3>1
    <3>3. r = [l EXCEPT !.pc = "stage", !.runs = q]
      BY <1>1 DEF PTask
    <3> HIDE DEF q
    <3>4. /\ r \in PTask /\ r.x = l.x /\ r.pc = "stage" /\ r.e = l.e /\ r.stage = l.stage
          /\ r.runs = q
      BY <1>1, <3>2, <3>3 DEF PTask, PTaskPC
    <3> QED
      BY <3>4 DEF q
  <2> HIDE DEF r
  <2>4. Counted(r)
    <3>1. \A s \in PStages : r.runs[s] <= r.e.retries[s] + 1
      <4> TAKE s \in PStages
      <4>1. l.runs[s] \in Nat /\ l.e.retries[s] \in Nat
        BY <1>2, <1>3
      <4>2. l.runs[s] <= l.e.retries[s] + 1 /\ (s = l.stage => l.runs[s] <= l.e.retries[s])
        BY <1>1, <2>1 DEF Counted
      <4>3. r.runs[s] = IF s = l.stage THEN l.runs[s] + 1 ELSE l.runs[s]
        BY <1>2, <2>3
      <4> QED
        BY <2>3, <4>1, <4>2, <4>3
    <3>2. \A s \in PStages \ {r.stage} : r.runs[s] > 0 => s \in r.e.completed
      BY <1>1, <1>2, <2>1, <2>3 DEF Counted
    <3> QED
      BY <2>2, <2>3, <3>1, <3>2 DEF Counted
  <2>5. r.x = ptasks[i].x /\ r.pc \notin {"done", "dead"}
    BY <2>1, <2>3
  <2> QED
    BY ONLY PInv, i \in DOMAIN ptasks, <2>1, <2>3, <2>4, <2>5, PMoves
<1>r. CASE StageReturns(i)
  <2> DEFINE e == CompleteStage(l.e, l.stage)
             r == [l EXCEPT !.e = e, !.pc = "staged"]
  <2>1. /\ l.pc = "stage" /\ l.x = ptasks[i].x /\ PStore(i, l, e, "staged") /\ QuietFrame
    BY <1>r DEF StageReturns, PResumes, l
  <2>2. l.stage \in PStages
    BY <1>6, <2>1 DEF OnStage
  <2>3. e \in PExecution /\ e.retries = l.e.retries /\ e.completed = l.e.completed \union {l.stage}
    BY <1>2, <2>2, PCopies
  <2> HIDE DEF e
  <2>4. Counted(r)
    BY <1>1, <1>2, <2>1, <2>2, <2>3 DEF Counted, PTask, OnStage
  <2>5. "staged" \in PTaskPC \ {"done", "dead"}
    BY DEF PTaskPC
  <2> QED
    BY ONLY PInv, i \in DOMAIN ptasks, <1>1, <1>4, <2>1, <2>3, <2>4, <2>5, PStored
<1>x. CASE StageRaises(i)
  <2> DEFINE e == FailStage(l.e, l.stage)
             r == [l EXCEPT !.e = e, !.pc = "failing"]
  <2>1. /\ l.pc \in {"stage", "staged"} /\ l.x = ptasks[i].x /\ PStore(i, l, e, "failing") /\ PipelineFrame
        /\ disturbed' \subseteq disturbed \union {l.x}
    BY <1>x DEF StageRaises, PResumes, l
  <2>2. l.stage \in PStages
    BY <1>6, <2>1 DEF OnStage
  <2>3. e \in PExecution /\ e.retries = l.e.retries /\ e.completed = l.e.completed
    BY <1>2, <2>2, PCopies
  <2> HIDE DEF e
  <2>4. Counted(r)
    BY <1>1, <1>2, <2>1, <2>2, <2>3 DEF Counted, PTask, OnStage
  <2>5. "failing" \in PTaskPC \ {"done", "dead"}
    BY DEF PTaskPC
  <2> QED
    BY ONLY PInv, i \in DOMAIN ptasks, <1>1, <2>1, <2>3, <2>4, <2>5, PStored
<1>f. CASE StageFailed(i)
  <2> DEFINE r == [l EXCEPT !.pc = "delay"]
  <2>1. l.pc = "failing" /\ l.x = ptasks[i].x /\ QuietFrame
    BY <1>f DEF StageFailed, PResumes, l
  <2>2. CASE l.e.retries[l.stage] < StageRetries /\ ptasks' = [ptasks EXCEPT ![i] = r] /\ UNCHANGED <<pexecs, ptask>>
    <3>1. r \in PTask /\ r.x = ptasks[i].x /\ r.pc = "delay" /\ r.e = l.e /\ r.stage = l.stage /\ r.runs = l.runs
      BY <1>1, <2>1 DEF PTask, PTaskPC
    <3> HIDE DEF r
    <3>2. Counted(r)
      BY <1>1, <1>6, <2>1, <2>2, <3>1 DEF Counted, OnStage
    <3>3. r.pc \notin {"done", "dead"}
      BY <3>1
    <3> QED
      BY ONLY PInv, i \in DOMAIN ptasks, <2>1, <2>2, <3>1, <3>2, <3>3, PMoves
  <2>3. CASE Finalize(i, l)
    <3>1. \A s \in PStages : l.runs[s] <= l.e.retries[s] + 1
      BY <1>1, <2>1 DEF Counted
    <3> QED
      BY ONLY PInv, i \in DOMAIN ptasks, <1>1, <2>1, <2>3, <3>1, PFinalizes
  <2> QED
    BY <1>f, <2>2, <2>3 DEF StageFailed, l
<1>y. CASE StageRetried(i)
  <2> DEFINE e == IncrementRetry(l.e, l.stage)
             m == [l EXCEPT !.e = e]
  <2>1. l.pc = "delay" /\ l.x = ptasks[i].x /\ QuietFrame
    BY <1>y DEF StageRetried, PResumes, l
  <2>2. l.stage \in PStages
    BY <1>6, <2>1 DEF OnStage
  <2>3. l.e.retries[l.stage] + 1 \in 0..StageRetries
    <3>1. l.e.retries[l.stage] \in 0..StageRetries /\ l.e.retries[l.stage] < StageRetries
      BY <1>1, <1>2, <2>1, <2>2 DEF Counted
    <3> QED
      BY <1>3, <3>1
  <2>4. /\ e \in PExecution /\ e.completed = l.e.completed
        /\ e.retries = [l.e.retries EXCEPT ![l.stage] = @ + 1]
    BY <1>2, <2>2, <2>3 DEF IncrementRetry, PExecution
  <2>5. \A s \in PStages : l.runs[s] <= e.retries[s] + 1 /\ l.runs[l.stage] <= e.retries[l.stage]
    <3> TAKE s \in PStages
    <3>1. l.runs[s] \in Nat /\ l.e.retries[s] \in Nat /\ l.runs[l.stage] \in Nat /\ l.e.retries[l.stage] \in Nat
      BY <1>2, <1>3, <2>2
    <3>2. l.runs[s] <= l.e.retries[s] + 1 /\ l.runs[l.stage] <= l.e.retries[l.stage] + 1
      BY <1>1, <2>1, <2>2 DEF Counted
    <3>3. /\ e.retries[l.stage] = l.e.retries[l.stage] + 1
          /\ e.retries[s] = IF s = l.stage THEN l.e.retries[s] + 1 ELSE l.e.retries[s]
      BY <1>2, <2>2, <2>4
    <3> QED
      BY <3>1, <3>2, <3>3
  <2> HIDE DEF e
  <2>6. m \in PTask /\ m.x = ptasks[i].x /\ m.e = e /\ m.runs = l.runs
    BY <1>1, <2>1, <2>4 DEF PTask
  <2>7. \A s \in PStages \ {l.stage} : l.runs[s] > 0 => s \in e.completed
    BY <1>1, <2>1, <2>4 DEF Counted
  <2>8. \/ BeginStage(i, m, l.stage)
        \/ l.stage \in e.completed /\ PTurn(i, m)
    BY <1>y DEF StageRetried, e, l
  <2> HIDE DEF m
  <2>9. CASE BeginStage(i, m, l.stage)
    <3>1. /\ \A s \in PStages : m.runs[s] <= m.e.retries[s] + 1
          /\ \A s \in PStages \ {l.stage} : m.runs[s] > 0 => s \in m.e.completed
          /\ m.runs[l.stage] <= m.e.retries[l.stage]
      BY <2>2, <2>5, <2>6, <2>7
    <3> QED
      BY ONLY PInv, i \in DOMAIN ptasks, <2>1, <2>2, <2>6, <2>9, <3>1, PBegins
  <2>10. CASE l.stage \in e.completed /\ PTurn(i, m)
    <3>1. Between(m)
      BY <2>5, <2>6, <2>7, <2>10 DEF Between
    <3> QED
      BY ONLY PInv, i \in DOMAIN ptasks, <2>1, <2>6, <2>10, <3>1, PTurns
  <2> QED
    BY <2>8, <2>9, <2>10
<1>d. CASE StageDone(i)
  <2> DEFINE freed == {s \in Downstream(l.stage, l.graph) :
                         /\ Upstream(s, l.graph) \subseteq l.mine \union {l.stage}
                         /\ s \notin l.e.completed}
             m == [l EXCEPT !.ready = @ \union freed, !.mine = @ \union {l.stage}]
  <2>1. l.pc = "staged" /\ l.x = ptasks[i].x /\ QuietFrame /\ PTurn(i, m)
    BY <1>d DEF StageDone, PResumes, l
  <2>2. l.stage \in PStages
    BY <1>6, <2>1 DEF OnStage
  <2>3. freed \subseteq PStages
    BY <1>5 DEF Downstream
  <2> HIDE DEF freed
  <2>4. m \in PTask /\ m.x = ptasks[i].x /\ m.e = l.e /\ m.runs = l.runs
    BY <1>1, <2>1, <2>2, <2>3 DEF PTask
  <2> HIDE DEF m
  <2>5. Between(m)
    BY <1>1, <2>1, <2>4 DEF Between, Counted
  <2> QED
    BY ONLY PInv, i \in DOMAIN ptasks, <2>1, <2>4, <2>5, PTurns
<1>z. CASE PTaskEnds(i)
  <2>1. /\ ptasks' = [ptasks EXCEPT ![i] = PEnded(@, "done")] /\ UNCHANGED pexecs
        /\ ptask' = [ptask EXCEPT ![ptasks[i].x] = 0] /\ QuietFrame
    BY <1>z DEF PTaskEnds, PFinally
  <2> QED
    BY <1>4, <2>1, PEnds DEF l
<1>c. CASE PTaskCrashes(i)
  <2>1. PipelineFrame /\ disturbed' \subseteq disturbed \union {l.x} /\ l.x = ptasks[i].x /\ l.e = ptasks[i].e /\ l.runs = ptasks[i].runs
    BY <1>c DEF PTaskCrashes, l
  <2>2. CASE l.pc \in {"started", "begun", "failing", "ending"} /\ PStore(i, l, PWith(l.e, "failed"), "closing")
    <3>1. ptasks[i].pc \notin {"done", "dead"} /\ PStore(i, l, PWith(ptasks[i].e, "failed"), "closing")
      BY <2>2 DEF l
    <3> QED
      BY ONLY PInv, i \in DOMAIN ptasks, <1>1, <2>1, <3>1, PStatusStored
  <2>3. CASE PFinally(i, "dead")
    BY <2>1, <2>3, PEnds DEF PFinally
  <2> QED
    BY <1>c, <2>2, <2>3 DEF PTaskCrashes, PResumes, l
<1>k. CASE PTaskCancelled(i)
  <2> DEFINE m == [l EXCEPT !.cancelled = FALSE]
  <2>1. /\ QuietFrame /\ PipelineFrame /\ disturbed' \subseteq disturbed \union {ptasks[i].x}
        /\ ptasks[i].pc \notin {"done", "dead"}
    BY <1>4, <1>k DEF PTaskCancelled, PAlive, l
  <2>2. CASE ptasks' = [ptasks EXCEPT ![i] = PEnded(@, "done")] /\ UNCHANGED <<pexecs, ptask>>
    BY <2>1, <2>2, PEnds
  <2>3. CASE PFinally(i, "done")
    BY <2>1, <2>3, PEnds DEF PFinally
  <2>4. CASE PStore(i, m, PWith(l.e, "cancelled"), "closing")
    <3>1. m \in PTask /\ m.x = ptasks[i].x /\ m.e = ptasks[i].e /\ m.runs = ptasks[i].runs
      BY <1>1 DEF PTask, l
    <3>2. PStore(i, m, PWith(ptasks[i].e, "cancelled"), "closing")
      BY <2>4 DEF l
    <3> HIDE DEF m
    <3>3. disturbed' \subseteq disturbed \union {m.x}
      BY <2>1, <3>1
    <3> QED
      BY ONLY PInv, i \in DOMAIN ptasks, <2>1, <3>1, <3>2, <3>3, PStatusStored
  <2> QED
    BY <1>k, <2>2, <2>3, <2>4 DEF PTaskCancelled, l
<1> QED
  BY <1>s, <1>t, <1>e, <1>r, <1>x, <1>f, <1>y, <1>d, <1>z, <1>c, <1>k DEF PTaskSteps

\* A pipeline that is defined has a graph.
LEMMA PDefined ==
  ASSUME PipelineTypeOK, Defined
  PROVE  pipeline \in [status : {"draft", "active"}, graph : PipelineGraphs, cron : BOOLEAN]
BY DEF PipelineTypeOK, Defined, NoPipeline

\* A definition step touches no execution and no task.
LEMMA PDefinitionKeeps ==
  ASSUME PInv, DefinitionSteps(PipelineGraphs, BOOLEAN)
  PROVE  PInv'
<1> DEFINE Definition == [status : {"draft", "active"}, graph : PipelineGraphs, cron : BOOLEAN]
<1>1. PipelineTypeOK
  BY DEF PInv
<1>2. SUFFICES pipeline' \in Definition \union {[status |-> "deleted"]} /\ schedule' \in BOOLEAN /\ DefinitionFrame
  <2>1. PipelineTypeOK'
    BY <1>1, <1>2 DEF PipelineTypeOK, DefinitionFrame
  <2>2. TasksCounted'
    BY <1>2 DEF PInv, TasksCounted, DefinitionFrame
  <2>3. RetryPolicyKept'
    BY <1>2 DEF PInv, RetryPolicyKept, DefinitionFrame
  <2> QED
    BY <2>1, <2>2, <2>3 DEF PInv
<1>3. ASSUME NEW g \in PipelineGraphs, NEW cron \in BOOLEAN, CreatePipeline(g, cron)
      PROVE  pipeline' \in Definition /\ schedule' \in BOOLEAN /\ DefinitionFrame
  BY <1>3 DEF CreatePipeline
<1>4. ASSUME NEW g \in PipelineGraphs, NEW cron \in BOOLEAN, NEW st \in {"draft", "active"},
             UpdatePipeline(g, st, cron)
      PROVE  pipeline' \in Definition /\ schedule' \in BOOLEAN /\ DefinitionFrame
  <2>1. schedule' \in BOOLEAN
    BY <1>1, <1>4 DEF UpdatePipeline, PipelineTypeOK
  <2> QED
    BY <1>4, <2>1 DEF UpdatePipeline
<1>5. ASSUME NEW on \in BOOLEAN, SetSchedule(on)
      PROVE  pipeline' \in Definition /\ schedule' \in BOOLEAN /\ DefinitionFrame
  BY <1>1, <1>5, PDefined DEF SetSchedule
<1>6. CASE DeletePipeline
  BY <1>6 DEF DeletePipeline
<1> HIDE DEF Definition
<1> QED
  BY <1>3, <1>4, <1>5, <1>6 DEF DefinitionSteps

\* A task is added for execution x with the copy e of it.
LEMMA TaskAdded ==
  ASSUME PInv, Defined, NEW x \in 1..MaxPExecs, NEW e \in PExecution, Len(ptasks) < MaxPTasks,
         pexecs' \in Seq(PExecution), Len(pexecs') <= MaxPExecs,
         DOMAIN pexecs \subseteq DOMAIN pexecs', x \in DOMAIN pexecs',
         \A s \in PStages : e.retries[s] \in 0..StageRetries,
         ptasks' = Append(ptasks, NewPTask(x, e)),
         ptask' = [ptask EXCEPT ![x] = Len(ptasks) + 1],
         PipelineFrame, disturbed' \subseteq disturbed \union {x}
  PROVE  PInv'
<1>1. PipelineTypeOK
  BY DEF PInv
<1>2. /\ ptasks \in Seq(PTask) /\ Len(ptasks) \in Nat /\ DOMAIN ptasks = 1..Len(ptasks) /\ MaxPTasks \in Nat
      /\ StageRetries \in Nat /\ \A i \in DOMAIN ptasks : ptasks[i] \in PTask /\ ptasks[i].x \in DOMAIN pexecs
  BY <1>1, PTypes
<1>3. PICK k \in Nat : k = Len(ptasks) + 1
  BY <1>2
<1>4. pipeline.graph \in PipelineGraphs
  BY <1>1, PDefined
<1> DEFINE r == NewPTask(x, e)
<1>5. /\ r \in PTask /\ r.x = x /\ r.pc = "new" /\ r.e = e /\ r.runs = [s \in PStages |-> 0]
  BY <1>4 DEF NewPTask, PTask, PTaskPC
<1>6. ptasks' = Append(ptasks, r)
  OBVIOUS
<1> HIDE DEF r
<1>7. /\ ptasks' \in Seq(PTask) /\ Len(ptasks') = k /\ DOMAIN ptasks' = 1..k
      /\ ptasks'[k] = r /\ \A i \in DOMAIN ptasks : ptasks'[i] = ptasks[i]
  BY <1>2, <1>3, <1>5, <1>6
<1>8. \A i \in DOMAIN ptasks' : ptasks'[i] = r \/ i \in DOMAIN ptasks
  BY <1>2, <1>3, <1>7
<1>9. Counted(r)
  <2>1. \A s \in PStages : r.runs[s] <= r.e.retries[s] + 1
    BY <1>2, <1>5
  <2> QED
    BY <1>5, <2>1 DEF Counted, OnStage
<1>10. PipelineTypeOK'
  <2>1. \A i \in DOMAIN ptasks' : ptasks'[i].x \in DOMAIN pexecs'
    BY <1>2, <1>5, <1>7, <1>8
  <2>2. ptask' \in [1..MaxPExecs -> 0..MaxPTasks] /\ \A y \in DOMAIN ptask' : ptask'[y] <= Len(ptasks')
    <3>1. /\ ptask \in [1..MaxPExecs -> 0..MaxPTasks] /\ \A y \in 1..MaxPExecs : ptask[y] <= Len(ptasks)
      BY <1>1 DEF PipelineTypeOK
    <3>2. k \in 0..MaxPTasks /\ ptask' = [ptask EXCEPT ![x] = k]
      BY <1>2, <1>3
    <3>3. ptask' \in [1..MaxPExecs -> 0..MaxPTasks]
      BY <3>1, <3>2
    <3>4. ASSUME NEW y \in 1..MaxPExecs
          PROVE  ptask'[y] <= k
      <4>1. ptask[y] \in Int /\ ptask[y] <= Len(ptasks)
        BY <3>1
      <4>2. ptask'[y] = k \/ ptask'[y] = ptask[y]
        BY <3>1, <3>2
      <4> QED
        BY <1>2, <1>3, <4>1, <4>2
    <3> QED
      BY <1>7, <3>3, <3>4
  <2>3. \A c \in pcancels' : c.x \in DOMAIN pexecs' /\ c.task \in DOMAIN ptasks'
    BY <1>1, <1>2, <1>3, <1>7 DEF PipelineTypeOK, PipelineFrame
  <2>4. disturbed' \subseteq DOMAIN pexecs'
    BY <1>1 DEF PipelineTypeOK
  <2>5. Len(ptasks') <= MaxPTasks
    BY <1>2, <1>3, <1>7
  <2> QED
    BY <1>1, <1>7, <2>1, <2>2, <2>3, <2>4, <2>5 DEF PipelineTypeOK, PipelineFrame
<1>11. TasksCounted'
  BY <1>7, <1>8, <1>9 DEF PInv, TasksCounted
<1>12. RetryPolicyKept'
  <2>1. \A s \in PStages : r.runs[s] <= StageRetries + 1
    BY <1>2, <1>5
  <2> QED
    BY <1>7, <1>8, <2>1 DEF PInv, RetryPolicyKept
<1> QED
  BY <1>10, <1>11, <1>12 DEF PInv

\* Clients store executions, or entries of executions, and leave the tasks.
LEMMA ClientStores ==
  ASSUME PInv, NEW x \in DOMAIN pexecs, NEW e \in PExecution, pexecs' = [pexecs EXCEPT ![x] = e],
         UNCHANGED ptasks,
         UNCHANGED ptask \/ \E y \in 1..MaxPExecs : ptask' = [ptask EXCEPT ![y] = 0],
         pcancels' \subseteq pcancels, UNCHANGED <<pipeline, schedule>>,
         disturbed' \subseteq disturbed \union {x}
  PROVE  PInv'
<1>1. PipelineTypeOK
  BY DEF PInv
<1>2. /\ pexecs \in Seq(PExecution) /\ Len(ptasks) \in Nat /\ MaxPTasks \in Nat
  BY <1>1, PTypes
<1>3. pexecs' \in Seq(PExecution) /\ Len(pexecs') = Len(pexecs) /\ DOMAIN pexecs' = DOMAIN pexecs
  BY <1>2
<1>4. ptask' \in [1..MaxPExecs -> 0..MaxPTasks] /\ \A y \in DOMAIN ptask' : ptask'[y] <= Len(ptasks)
  <2>1. /\ ptask \in [1..MaxPExecs -> 0..MaxPTasks] /\ 0 \in 0..MaxPTasks /\ 0 <= Len(ptasks)
        /\ \A y \in 1..MaxPExecs : ptask[y] <= Len(ptasks)
    BY <1>1, <1>2 DEF PipelineTypeOK
  <2> QED
    BY <2>1
<1>5. PipelineTypeOK'
  BY <1>1, <1>3, <1>4 DEF PipelineTypeOK
<1>6. TasksCounted'
  BY DEF PInv, TasksCounted
<1>7. RetryPolicyKept'
  BY DEF PInv, RetryPolicyKept
<1> QED
  BY <1>5, <1>6, <1>7 DEF PInv

\* A launch keeps the invariant.
LEMMA PLaunches ==
  ASSUME PInv, Defined, LaunchPipeline
  PROVE  PInv'
<1>1. PipelineTypeOK
  BY DEF PInv
<1>2. pexecs \in Seq(PExecution) /\ Len(pexecs) \in Nat /\ DOMAIN pexecs = 1..Len(pexecs) /\ MaxPExecs \in Nat
  BY <1>1, PTypes
<1>3. PICK x \in Nat : x = Len(pexecs) + 1
  BY <1>2
<1>4. /\ x <= MaxPExecs /\ Len(ptasks) < MaxPTasks /\ pexecs' = Append(pexecs, NewPExecution)
      /\ ptasks' = Append(ptasks, NewPTask(x, NewPExecution)) /\ ptask' = [ptask EXCEPT ![x] = Len(ptasks) + 1]
      /\ PipelineFrame /\ disturbed' \subseteq disturbed \union {x}
  BY <1>3 DEF LaunchPipeline, PipelineFrame
<1>5. /\ pexecs' \in Seq(PExecution) /\ Len(pexecs') = x /\ DOMAIN pexecs' = 1..x
      /\ x \in DOMAIN pexecs' /\ DOMAIN pexecs \subseteq DOMAIN pexecs' /\ x \in 1..MaxPExecs
  BY <1>2, <1>3, <1>4, PFresh
<1>6. Len(pexecs') <= MaxPExecs
  BY <1>4, <1>5
<1>7. NewPExecution \in PExecution /\ \A s \in PStages : NewPExecution.retries[s] \in 0..StageRetries
  BY PFresh DEF PExecution
<1> QED
  BY ONLY PInv, Defined, <1>4, <1>5, <1>6, <1>7, TaskAdded

\* resume() keeps it, with the retries of the execution.
LEMMA PResumed ==
  ASSUME PInv, NEW x \in DOMAIN pexecs, ResumePipeline(x)
  PROVE  PInv'
<1> DEFINE e == PWith(pexecs[x], "running")
<1>1. PipelineTypeOK
  BY DEF PInv
<1>2. pexecs \in Seq(PExecution) /\ pexecs[x] \in PExecution /\ x \in 1..MaxPExecs /\ Len(pexecs) <= MaxPExecs
  BY <1>1, PTypes DEF PipelineTypeOK
<1>3. e \in PExecution /\ \A s \in PStages : e.retries[s] \in 0..StageRetries
  BY <1>2 DEF PWith, PExecution
<1>4. pexecs' = [pexecs EXCEPT ![x] = e]
  BY DEF ResumePipeline, PWith
<1>5. PipelineFrame /\ disturbed' \subseteq disturbed \union {x} /\ Len(ptasks) < MaxPTasks
  BY DEF ResumePipeline, PipelineFrame
<1>6. CASE /\ Defined
           /\ ptasks' = Append(ptasks, NewPTask(x, e))
           /\ ptask' = [ptask EXCEPT ![x] = Len(ptasks) + 1]
  <2> HIDE DEF e
  <2>1. pexecs' \in Seq(PExecution) /\ Len(pexecs') = Len(pexecs) /\ DOMAIN pexecs' = DOMAIN pexecs
    BY <1>2, <1>3, <1>4
  <2>2. Len(pexecs') <= MaxPExecs /\ DOMAIN pexecs \subseteq DOMAIN pexecs' /\ x \in DOMAIN pexecs'
    BY <1>2, <2>1
  <2> QED
    BY ONLY PInv, <1>2, <1>3, <1>5, <1>6, <2>1, <2>2, TaskAdded
<1>7. CASE UNCHANGED <<ptasks, ptask>>
  <2>1. pcancels' \subseteq pcancels /\ UNCHANGED <<pipeline, schedule>> /\ UNCHANGED ptask /\ UNCHANGED ptasks
    BY <1>5, <1>7 DEF PipelineFrame
  <2> HIDE DEF e
  <2> QED
    BY ONLY PInv, x \in DOMAIN pexecs, <1>3, <1>4, <1>5, <2>1, ClientStores
<1> QED
  BY <1>6, <1>7 DEF ResumePipeline

\* cancel() keeps it.
LEMMA PCancels ==
  ASSUME PInv, NEW x \in DOMAIN pexecs, CancelPipeline(x)
  PROVE  PInv'
<1>1. PipelineTypeOK
  BY DEF PInv
<1>2. /\ pexecs \in Seq(PExecution) /\ pexecs[x] \in PExecution /\ x \in 1..MaxPExecs
      /\ ptasks \in Seq(PTask) /\ Len(ptasks) \in Nat /\ DOMAIN ptasks = 1..Len(ptasks) /\ MaxPTasks \in Nat
      /\ Len(ptasks) <= MaxPTasks
  BY <1>1, PTypes DEF PipelineTypeOK
<1>3. CASE pexecs' = [pexecs EXCEPT ![x].status = "cancelled"] /\ UNCHANGED <<ptasks, pcancels>>
  <2> DEFINE e == [pexecs[x] EXCEPT !.status = "cancelled"]
  <2>1. e \in PExecution /\ pexecs' = [pexecs EXCEPT ![x] = e]
    BY <1>2, <1>3 DEF PExecution
  <2>2. /\ UNCHANGED ptasks /\ UNCHANGED ptask /\ pcancels' \subseteq pcancels
        /\ UNCHANGED <<pipeline, schedule>> /\ disturbed' \subseteq disturbed \union {x}
    BY <1>3 DEF CancelPipeline
  <2> HIDE DEF e
  <2> QED
    BY ONLY PInv, x \in DOMAIN pexecs, <2>1, <2>2, ClientStores
<1>4. CASE /\ ptask[x] # 0 /\ ptasks' = [ptasks EXCEPT ![ptask[x]].cancelled = TRUE]
           /\ pcancels' = {[x |-> x, e |-> pexecs[x], task |-> ptask[x]]}
           /\ UNCHANGED pexecs
  <2>1. PICK i \in DOMAIN ptasks : i = ptask[x] /\ i \in 1..MaxPTasks
    <3>1. ptask[x] \in 0..MaxPTasks /\ ptask[x] <= Len(ptasks)
      BY <1>1, <1>2 DEF PipelineTypeOK
    <3> QED
      BY <1>2, <1>4, <3>1
  <2> DEFINE r == [ptasks[i] EXCEPT !.cancelled = TRUE]
  <2>2. ptasks[i] \in PTask /\ Counted(ptasks[i])
    BY PFinds
  <2>3. /\ r \in PTask /\ r.x = ptasks[i].x /\ r.e = ptasks[i].e /\ r.runs = ptasks[i].runs
        /\ r.pc = ptasks[i].pc /\ r.stage = ptasks[i].stage
    BY <2>2 DEF PTask
  <2>4. ptasks' = [ptasks EXCEPT ![i] = r]
    BY <1>4, <2>1
  <2> HIDE DEF r
  <2>5. Counted(r)
    BY <2>2, <2>3 DEF Counted
  <2>6. /\ ptasks' \in Seq(PTask) /\ Len(ptasks') = Len(ptasks) /\ DOMAIN ptasks' = DOMAIN ptasks
        /\ ptasks'[i] = r /\ \A j \in DOMAIN ptasks \ {i} : ptasks'[j] = ptasks[j]
    BY <1>2, <2>3, <2>4
  <2>7. PipelineTypeOK'
    <3>1. \A j \in DOMAIN ptasks' : ptasks'[j].x \in DOMAIN pexecs'
      BY <1>1, <1>4, <2>3, <2>6, PTypes
    <3>2. /\ pcancels' \subseteq [x : 1..MaxPExecs, e : PExecution, task : 1..MaxPTasks]
          /\ \A c \in pcancels' : c.x \in DOMAIN pexecs' /\ c.task \in DOMAIN ptasks'
      BY <1>2, <1>4, <2>1, <2>6
    <3>3. UNCHANGED <<pipeline, schedule, pexecs, ptask, disturbed>>
      BY <1>4 DEF CancelPipeline
    <3> QED
      BY <1>1, <2>6, <3>1, <3>2, <3>3 DEF PipelineTypeOK
  <2>8. TasksCounted'
    BY <2>5, <2>6 DEF PInv, TasksCounted
  <2>9. RetryPolicyKept'
    BY <2>3, <2>6 DEF PInv, RetryPolicyKept
  <2> QED
    BY <2>7, <2>8, <2>9 DEF PInv
<1> QED
  BY <1>3, <1>4 DEF CancelPipeline

\* So does its return.
LEMMA PCancelReturns ==
  ASSUME PInv, NEW c \in pcancels, CancelPipelineReturns(c)
  PROVE  PInv'
<1>1. PipelineTypeOK
  BY DEF PInv
<1>2. c.x \in DOMAIN pexecs /\ c.e \in PExecution /\ c.x \in 1..MaxPExecs
  BY <1>1 DEF PipelineTypeOK
<1>3. /\ UNCHANGED ptasks /\ pcancels' \subseteq pcancels /\ UNCHANGED <<pipeline, schedule>>
      /\ disturbed' \subseteq disturbed \union {c.x}
  BY DEF CancelPipelineReturns
<1>4. PICK e \in PExecution : pexecs' = [pexecs EXCEPT ![c.x] = e]
  <2>1. CASE pexecs' = [pexecs EXCEPT ![c.x] = PWith(c.e, "cancelled")]
    <3>1. PWith(c.e, "cancelled") \in PExecution
      BY <1>2 DEF PWith, PExecution
    <3> QED
      BY <2>1, <3>1
  <2>2. CASE UNCHANGED pexecs
    <3>1. pexecs \in Seq(PExecution) /\ pexecs[c.x] \in PExecution
      BY <1>1, <1>2, PTypes
    <3>2. pexecs = [pexecs EXCEPT ![c.x] = pexecs[c.x]]
      BY <1>2, <3>1
    <3> QED
      BY <2>2, <3>1, <3>2
  <2> QED
    BY <2>1, <2>2 DEF CancelPipelineReturns
<1>5. UNCHANGED ptask \/ \E y \in 1..MaxPExecs : ptask' = [ptask EXCEPT ![y] = 0]
  BY <1>2 DEF CancelPipelineReturns
<1> QED
  BY ONLY PInv, <1>2, <1>3, <1>4, <1>5, ClientStores

\* So does pause().
LEMMA PPauses ==
  ASSUME PInv, NEW x \in DOMAIN pexecs, PausePipeline(x)
  PROVE  PInv'
<1> DEFINE e == [pexecs[x] EXCEPT !.status = "paused"]
<1>1. PipelineTypeOK
  BY DEF PInv
<1>2. pexecs \in Seq(PExecution) /\ pexecs[x] \in PExecution
  BY <1>1, PTypes
<1>3. e \in PExecution /\ pexecs' = [pexecs EXCEPT ![x] = e]
  BY <1>2 DEF PausePipeline, PExecution
<1>4. /\ UNCHANGED ptasks /\ UNCHANGED ptask /\ pcancels' \subseteq pcancels
      /\ UNCHANGED <<pipeline, schedule>> /\ disturbed' \subseteq disturbed \union {x}
  BY DEF PausePipeline
<1> HIDE DEF e
<1> QED
  BY ONLY PInv, x \in DOMAIN pexecs, <1>3, <1>4, ClientStores

\* Every step of the engine keeps it.
LEMMA PNextKeeps ==
  ASSUME PInv, PipelineNext
  PROVE  PInv'
<1>1. CASE DefinitionSteps(PipelineGraphs, BOOLEAN)
  BY <1>1, PDefinitionKeeps
<1>2. CASE ExecutePipeline
  BY <1>2, PLaunches DEF ExecutePipeline, Defined
<1>3. ASSUME NEW x \in DOMAIN pexecs, RollbackPipeline(x)
      PROVE  PInv'
  BY <1>3, PLaunches DEF RollbackPipeline
<1>4. ASSUME NEW x \in DOMAIN pexecs, CancelPipeline(x) \/ PausePipeline(x) \/ ResumePipeline(x)
      PROVE  PInv'
  BY <1>4, PCancels, PPauses, PResumed
<1>5. ASSUME NEW c \in pcancels, CancelPipelineReturns(c)
      PROVE  PInv'
  BY <1>5, PCancelReturns
<1>6. ASSUME NEW i \in DOMAIN ptasks, PTaskSteps(i)
      PROVE  PInv'
  BY <1>6, PTaskKeeps
<1> QED
  BY <1>1, <1>2, <1>3, <1>4, <1>5, <1>6 DEF PipelineNext, ExecutionSteps

\* An engine without executions satisfies it.
LEMMA PInitially ==
  ASSUME PipelineInit
  PROVE  PInv
<1>1. /\ pipeline = NoPipeline /\ schedule = FALSE /\ pexecs = <<>> /\ ptasks = <<>> /\ pcancels = {}
      /\ ptask = [x \in 1..MaxPExecs |-> 0] /\ disturbed = {}
  BY DEF PipelineInit, NothingExecuted
<1>2. MaxPExecs \in Nat /\ MaxPTasks \in Nat
  BY PipelineAssumption
<1>3. Len(ptasks) = 0 /\ Len(pexecs) = 0 /\ DOMAIN ptasks = {} /\ pexecs \in Seq(PExecution) /\ ptasks \in Seq(PTask)
  BY <1>1
<1>4. PipelineTypeOK
  <2>1. ptask \in [1..MaxPExecs -> 0..MaxPTasks] /\ \A x \in DOMAIN ptask : ptask[x] <= Len(ptasks)
    BY <1>1, <1>2, <1>3
  <2>2. Len(pexecs) <= MaxPExecs /\ Len(ptasks) <= MaxPTasks
    BY <1>2, <1>3
  <2>3. disturbed \subseteq DOMAIN pexecs /\ schedule \in BOOLEAN
    BY <1>1
  <2> QED
    BY <1>1, <1>3, <2>1, <2>2, <2>3 DEF PipelineTypeOK
<1> QED
  BY <1>3, <1>4 DEF PInv, TasksCounted, RetryPolicyKept

\* It always holds.
LEMMA PInvHolds == PipelineSpec => []PInv
<1>1. PipelineInit => PInv
  BY PInitially
<1>2. PInv /\ [PipelineNext]_pipelineVars => PInv'
  <2> SUFFICES ASSUME PInv, [PipelineNext]_pipelineVars
               PROVE  PInv'
    OBVIOUS
  <2>1. CASE PipelineNext
    BY <2>1, PNextKeeps
  <2>2. CASE UNCHANGED pipelineVars
    <3>1. PipelineTypeOK'
      BY <2>2 DEF PInv, PipelineTypeOK, pipelineVars
    <3>2. TasksCounted' /\ RetryPolicyKept'
      BY <2>2 DEF PInv, TasksCounted, RetryPolicyKept, pipelineVars
    <3> QED
      BY <3>1, <3>2 DEF PInv
  <2> QED
    BY <2>1, <2>2
<1> QED
  BY <1>1, <1>2, PTL DEF PipelineSpec

\* However clients execute, roll back, pause, resume, cancel and redefine a
\* pipeline, and whichever publications raise, one run of _run_execution
\* executes a stage at most once more than its retry_count.
THEOREM RetriesKept == PipelineSpec => []RetryPolicyKept
<1>1. PInv => RetryPolicyKept
  BY DEF PInv
<1> QED
  BY <1>1, PInvHolds, PTL

(***************************************************************************)
(* Pipelines: outcomes                                                     *)
(***************************************************************************)
\* validate_pipeline takes the stages in the rounds of Kahn's algorithm.
LEMMA StagesSorted ==
  ASSUME NEW g
  PROVE  Rounds(SortedStages(g), g.stages, [s \in g.stages |-> Upstream(s, g)])
<1> DEFINE pre == [s \in g.stages |-> Upstream(s, g)]
           E(f) == [k \in Nat |-> IF k = 0 THEN {} ELSE {s \in g.stages : Upstream(s, g) \subseteq f[k - 1]}]
<1>1. PICK h : Rounds(h, g.stages, pre)
  BY RoundsExist
<1>2. \A f : E(f) = [k \in Nat |-> IF k = 0 THEN {} ELSE {s \in g.stages : pre[s] \subseteq f[k - 1]}]
  OBVIOUS
<1>3. h = E(h)
  BY <1>1, <1>2 DEF Rounds
<1>4. SortedStages(g) = CHOOSE f : f = E(f)
  BY DEF SortedStages
<1>5. SortedStages(g) = E(SortedStages(g))
  BY <1>3, <1>4
<1> QED
  BY <1>2, <1>5 DEF Rounds

\* Stages that a pipeline which validate_pipeline accepts has, and of which
\* every one is completed whose dependencies are, are all its stages.
LEMMA DagCompleted ==
  ASSUME NEW g \in PipelineGraphs, IsDag(g), NEW C, C \subseteq g.stages,
         \A s \in g.stages : Upstream(s, g) \subseteq C => s \in C
  PROVE  C = g.stages
<1> DEFINE pre == [s \in g.stages |-> Upstream(s, g)]
<1>1. Rounds(SortedStages(g), g.stages, pre)
  BY StagesSorted
<1>2. \A s \in g.stages : pre[s] \subseteq C => s \in C
  OBVIOUS
<1>3. Cardinality(g.stages) \in Nat
  BY PipelineAssumption, FS_CardinalityType
<1> HIDE DEF pre
<1>4. SortedStages(g)[Cardinality(g.stages)] \subseteq C
  BY <1>1, <1>2, <1>3, RoundsStayIn
<1> QED
  BY <1>4 DEF IsDag

\* The stage a task has in hand, neither queued nor completed.
StageInHand(l) == IF l.pc \in {"begun", "stage", "failing", "delay"} THEN {l.stage} ELSE {}

\* The awaits of a task that has begun and not yet stored an outcome.
PWorking == {"started", "begun", "stage", "staged", "failing", "delay", "sleep"}

\* What is stored of an execution while its task is at l.pc.
Fit(l, st) ==
  /\ l.pc = "new" => st = "pending" /\ ~l.cancelled
  /\ l.pc \in PWorking => st \in {"running", "paused", "cancelled"} /\ l.e.status = "running"
  /\ l.pc \notin PWorking \union {"new"} => st \in {"completed", "failed", "cancelled"}

\* The locals of a task that no other task of its execution precedes.
Steady(l) ==
  /\ l.pc \in {"new", "started"} => l.e.completed = {} /\ l.e.failed = {} /\ l.mine = {}
  /\ l.pc \in {"sleep", "begun", "stage", "failing", "delay"} => l.e.completed = l.mine
  /\ l.pc = "staged" => l.e.completed = l.mine \union {l.stage}
  /\ l.pc \in {"sleep", "staged"} => l.e.failed = {}
  /\ l.pc \in {"begun", "stage"} => l.e.failed \subseteq {l.stage}
  /\ l.pc \in {"failing", "delay"} => l.e.failed = {l.stage}
  /\ l.pc \in {"begun", "stage", "staged", "failing", "delay"} => l.stage \in l.graph.stages
  /\ l.pc \in {"begun", "stage", "failing", "delay"} => l.stage \notin l.mine
  /\ l.pc \in PWorking \union {"new"} => l.e.completed \union l.ready \subseteq l.graph.stages
  /\ l.pc \in PWorking \ {"started"} =>
       \A s \in l.graph.stages : Upstream(s, l.graph) \subseteq l.mine =>
         s \in l.ready \union l.e.completed \union StageInHand(l)
  /\ l.pc \in PWorking \union {"new"} =>
       \A s \in PStages \ (l.e.completed \union StageInHand(l)) : l.runs[s] = 0 /\ l.e.retries[s] = 0
  /\ l.pc = "begun" => l.runs[l.stage] = l.e.retries[l.stage]
  /\ l.pc \in {"stage", "failing", "delay"} => l.runs[l.stage] = l.e.retries[l.stage] + 1

\* The outcome e of an execution that task l ran.
Earned(l, e) ==
  /\ e.status = "failed" => \E s \in e.failed \ e.completed : l.runs[s] = StageRetries + 1
  /\ e.status = "completed" => e.failed = {} /\ (IsDag(l.graph) => e.completed = l.graph.stages)

\* A task and the stored execution fit together.
Proper(l, e) == Fit(l, e.status) /\ Steady(l) /\ Earned(l, e)

\* One task per undisturbed execution, each execution with its task, the two
\* fitting together, and nobody in the middle of cancelling a task that never
\* began.
QInv ==
  /\ \A i, j \in DOMAIN ptasks : ptasks[i].x = ptasks[j].x /\ ptasks[i].x \notin disturbed => i = j
  /\ \A x \in DOMAIN pexecs \ disturbed : \E i \in DOMAIN ptasks : ptasks[i].x = x
  /\ \A i \in DOMAIN ptasks : ptasks[i].x \notin disturbed => Proper(ptasks[i], pexecs[ptasks[i].x])
  /\ \A c \in pcancels, i \in DOMAIN ptasks : ptasks[i].x = c.x /\ c.x \notin disturbed => ptasks[i].pc # "new"

\* Task i becomes r, its execution e.
PBecomes(i, r, e) ==
  /\ ptasks' = [ptasks EXCEPT ![i] = r] /\ pexecs' = [pexecs EXCEPT ![r.x] = e]
  /\ r.x = ptasks[i].x /\ disturbed \subseteq disturbed' /\ pcancels' = pcancels
  /\ r.x \notin disturbed' => r.pc # "new" /\ Proper(r, e)

\* A step that replaces one task by a proper one keeps QInv.
LEMMA PBecomesKeeps ==
  ASSUME PInv, QInv, NEW i \in DOMAIN ptasks, NEW r, NEW e, PBecomes(i, r, e)
  PROVE  QInv'
<1>1. /\ ptasks \in Seq(PTask) /\ pexecs \in Seq(PExecution)
      /\ \A j \in DOMAIN ptasks : ptasks[j].x \in DOMAIN pexecs
  BY PTypes DEF PInv
<1>2. /\ DOMAIN ptasks' = DOMAIN ptasks /\ ptasks'[i] = r
      /\ \A j \in DOMAIN ptasks \ {i} : ptasks'[j] = ptasks[j]
  BY <1>1 DEF PBecomes
<1>3. r.x \in DOMAIN pexecs /\ DOMAIN pexecs' = DOMAIN pexecs
  BY <1>1 DEF PBecomes
<1>4. pexecs'[r.x] = e /\ \A y \in DOMAIN pexecs \ {r.x} : pexecs'[y] = pexecs[y]
  BY <1>3 DEF PBecomes
<1>5. \A j \in DOMAIN ptasks : ptasks'[j].x = ptasks[j].x
  BY <1>2 DEF PBecomes
<1>6. /\ disturbed \subseteq disturbed' /\ pcancels' = pcancels /\ r.x = ptasks[i].x
      /\ r.x \notin disturbed' => r.pc # "new" /\ Proper(r, e)
  BY DEF PBecomes
<1>7. \A j, k \in DOMAIN ptasks : ptasks[j].x = ptasks[k].x /\ ptasks[j].x \notin disturbed' => j = k
  BY <1>6 DEF QInv
<1>8. \A x \in DOMAIN pexecs' \ disturbed' : \E j \in DOMAIN ptasks' : ptasks'[j].x = x
  BY <1>2, <1>3, <1>5, <1>6 DEF QInv
<1>9. ASSUME NEW j \in DOMAIN ptasks, ptasks[j].x \notin disturbed'
      PROVE  Proper(ptasks'[j], pexecs'[ptasks[j].x])
  <2>1. CASE j = i
    BY <1>2, <1>4, <1>6, <1>9, <2>1
  <2>2. CASE j # i
    <3>1. ptasks[j].x # r.x
      BY <1>6, <1>7, <1>9, <2>2
    <3> QED
      BY <1>1, <1>2, <1>4, <1>6, <1>9, <2>2, <3>1 DEF QInv
  <2> QED
    BY <2>1, <2>2
<1>10. \A c \in pcancels', j \in DOMAIN ptasks' :
         ptasks'[j].x = c.x /\ c.x \notin disturbed' => ptasks'[j].pc # "new"
  <2> SUFFICES ASSUME NEW c \in pcancels, NEW j \in DOMAIN ptasks, ptasks[j].x = c.x, c.x \notin disturbed'
               PROVE  ptasks'[j].pc # "new"
    BY <1>2, <1>5, <1>6
  <2>1. CASE j = i
    BY <1>2, <1>6, <2>1
  <2>2. CASE j # i
    BY <1>2, <1>6, <2>2 DEF QInv
  <2> QED
    BY <2>1, <2>2
<1> QED
  BY <1>2, <1>3, <1>5, <1>7, <1>8, <1>9, <1>10 DEF QInv

\* The facts of the invariant about one task.
LEMMA ProperFound ==
  ASSUME PInv, QInv, NEW i \in DOMAIN ptasks
  PROVE  /\ ptasks[i] \in PTask /\ ptasks[i].e \in PExecution /\ Counted(ptasks[i])
         /\ ptasks[i].x \in DOMAIN pexecs
         /\ pexecs = [pexecs EXCEPT ![ptasks[i].x] = pexecs[ptasks[i].x]]
         /\ ptasks[i].x \notin disturbed => Proper(ptasks[i], pexecs[ptasks[i].x])
  BY PFinds, PTaskFields DEF QInv

\* The locals at the top of the while loop.
PPoised(l) ==
  /\ l.e.status = "running" /\ l.e.failed = {} /\ l.e.completed = l.mine
  /\ l.e.completed \union l.ready \subseteq l.graph.stages
  /\ \A s \in l.graph.stages : Upstream(s, l.graph) \subseteq l.mine => s \in l.ready \union l.e.completed
  /\ \A s \in PStages \ l.e.completed : l.runs[s] = 0 /\ l.e.retries[s] = 0

\* A task that stored an outcome is steady.
LEMMA SteadyEnds ==
  ASSUME NEW l, l.pc \in {"ending", "closing", "done", "dead"}
  PROVE  Steady(l)
  BY DEF Steady, PWorking

\* A task stores a copy that is neither failed nor completed.
LEMMA PStoreBecomes ==
  ASSUME NEW i \in DOMAIN ptasks, NEW l \in PTask, l.x = ptasks[i].x, NEW e, NEW pc, PStore(i, l, e, pc),
         disturbed \subseteq disturbed', pcancels' = pcancels, pc # "new",
         \A r : /\ r.x = l.x /\ r.graph = l.graph /\ r.ready = l.ready /\ r.mine = l.mine
                /\ r.runs = l.runs /\ r.stage = l.stage /\ r.e = e /\ r.pc = pc
                /\ l.x \notin disturbed'
                => Proper(r, e)
  PROVE  \E r, f : PBecomes(i, r, f)
<1> DEFINE r == [l EXCEPT !.e = e, !.pc = pc]
<1>1. /\ r.x = l.x /\ r.graph = l.graph /\ r.ready = l.ready /\ r.mine = l.mine
      /\ r.runs = l.runs /\ r.stage = l.stage /\ r.e = e /\ r.pc = pc
  BY DEF PTask
<1>2. ptasks' = [ptasks EXCEPT ![i] = r] /\ pexecs' = [pexecs EXCEPT ![l.x] = e]
  BY DEF PStore
<1> HIDE DEF r
<1>3. r.x \notin disturbed' => Proper(r, e)
  BY <1>1
<1>4. PBecomes(i, r, e)
  BY <1>1, <1>2, <1>3 DEF PBecomes
<1> QED
  BY <1>4

\* A task moves and its execution stays.
LEMMA PStayBecomes ==
  ASSUME PInv, QInv, NEW i \in DOMAIN ptasks, NEW r, r.x = ptasks[i].x, r.pc # "new",
         ptasks' = [ptasks EXCEPT ![i] = r], UNCHANGED pexecs,
         disturbed \subseteq disturbed', pcancels' = pcancels,
         r.x \notin disturbed' => Proper(r, pexecs[r.x])
  PROVE  \E q, f : PBecomes(i, q, f)
<1>1. pexecs' = [pexecs EXCEPT ![r.x] = pexecs[r.x]]
  BY ProperFound
<1>2. PBecomes(i, r, pexecs[r.x])
  BY <1>1 DEF PBecomes
<1> QED
  BY <1>2

\* The while loop ends: every stage is completed, or one failed for good.
LEMMA FinalizeBecomes ==
  ASSUME NEW i \in DOMAIN ptasks, NEW l \in PTask, l.x = ptasks[i].x,
         Finalize(i, l), disturbed' = disturbed, pcancels' = pcancels,
         l.x \notin disturbed /\ l.e.failed # {} =>
           \E s \in l.e.failed \ l.e.completed : l.runs[s] = StageRetries + 1,
         l.x \notin disturbed /\ l.e.failed = {} /\ IsDag(l.graph) => l.e.completed = l.graph.stages
  PROVE  \E r, f : PBecomes(i, r, f)
<1> DEFINE e == PWith(l.e, IF l.e.failed # {} THEN "failed" ELSE "completed")
<1>1. l.e \in PExecution
  BY PTaskFields
<1>2. /\ e.status = IF l.e.failed # {} THEN "failed" ELSE "completed"
      /\ e.failed = l.e.failed /\ e.completed = l.e.completed
  BY <1>1 DEF PWith, PExecution
<1>3. PStore(i, l, e, "ending")
  BY DEF Finalize
<1> HIDE DEF e
<1>4. ASSUME NEW r, r.graph = l.graph, r.runs = l.runs, r.pc = "ending", l.x \notin disturbed'
      PROVE  Proper(r, e)
  <2>1. Steady(r)
    BY <1>4, SteadyEnds
  <2>2. Fit(r, e.status)
    BY <1>2, <1>4 DEF Fit, PWorking
  <2>3. Earned(r, e)
    BY <1>2, <1>4 DEF Earned
  <2> QED
    BY <2>1, <2>2, <2>3 DEF Proper
<1> QED
  BY <1>3, <1>4, PStoreBecomes

\* What is left for execution when a running task has stored its copy.
LEMMA RunningFits ==
  ASSUME NEW l, NEW e, l.pc \in PWorking, l.e.status = "running",
         e.status \in {"running", "paused", "cancelled"}, Steady(l)
  PROVE  Proper(l, e)
  BY DEF Proper, Fit, Earned, PWorking

\* Another stage is begun.
LEMMA BeginBecomes ==
  ASSUME NEW i \in DOMAIN ptasks, NEW l \in PTask, l.x = ptasks[i].x, NEW s \in PStages,
         BeginStage(i, l, s), disturbed' = disturbed, pcancels' = pcancels,
         l.x \notin disturbed =>
           /\ l.e.status = "running" /\ l.e.failed \subseteq {s} /\ l.e.completed = l.mine
           /\ s \in l.graph.stages \ l.e.completed
           /\ l.e.completed \union l.ready \subseteq l.graph.stages
           /\ \A t \in l.graph.stages : Upstream(t, l.graph) \subseteq l.mine =>
                t \in l.ready \union l.e.completed \union {s}
           /\ \A t \in PStages \ (l.e.completed \union {s}) : l.runs[t] = 0 /\ l.e.retries[t] = 0
           /\ l.runs[s] = l.e.retries[s]
  PROVE  \E r, f : PBecomes(i, r, f)
<1> DEFINE m == [l EXCEPT !.ready = @ \ {s}, !.stage = s]
<1>1. /\ m \in PTask /\ m.x = l.x /\ m.stage = s /\ m.e = l.e /\ m.runs = l.runs /\ m.graph = l.graph
      /\ m.ready = l.ready \ {s} /\ m.mine = l.mine
  BY DEF PTask
<1>2. PStore(i, m, l.e, "begun")
  BY DEF BeginStage
<1> HIDE DEF m
<1>3. ASSUME NEW r, r.graph = m.graph, r.ready = m.ready, r.mine = m.mine, r.runs = m.runs,
             r.stage = m.stage, r.e = l.e, r.pc = "begun", m.x \notin disturbed'
      PROVE  Proper(r, l.e)
  <2>1. StageInHand(r) = {s}
    BY <1>1, <1>3 DEF StageInHand
  <2>2. Steady(r)
    BY <1>1, <1>3, <2>1 DEF Steady, PWorking
  <2>3. r.pc \in PWorking /\ r.e.status = "running" /\ l.e.status \in {"running", "paused", "cancelled"}
    BY <1>1, <1>3 DEF PWorking
  <2> QED
    BY <2>2, <2>3, RunningFits
<1> QED
  BY <1>1, <1>2, <1>3, PStoreBecomes

\* One turn of the loop of _run_execution leaves a proper task.
LEMMA PTurnBecomes ==
  ASSUME PInv, QInv, NEW i \in DOMAIN ptasks, NEW l \in PTask, l.x = ptasks[i].x, l.graph = ptasks[i].graph,
         l.x \notin disturbed => PPoised(l) /\ ptasks[i].pc \in PWorking,
         PTurn(i, l), disturbed' = disturbed, pcancels' = pcancels
  PROVE  \E r, f : PBecomes(i, r, f)
<1> DEFINE open == l.ready \ l.e.completed
           m == [l EXCEPT !.ready = open]
           r == [l EXCEPT !.ready = open, !.pc = "sleep"]
<1>1. open \subseteq PStages /\ l.e \in PExecution /\ l.graph \in PipelineGraphs
  BY PTaskFields
<1>2. /\ m \in PTask /\ m.x = l.x /\ m.e = l.e /\ m.runs = l.runs /\ m.graph = l.graph /\ m.ready = open
      /\ m.mine = l.mine
  BY DEF PTask
<1>3. /\ r \in PTask /\ r.x = l.x /\ r.e = l.e /\ r.runs = l.runs /\ r.pc = "sleep" /\ r.graph = l.graph
      /\ r.ready = open /\ r.mine = l.mine
  BY DEF PTask, PTaskPC
<1>4. CASE open = {} /\ Finalize(i, l)
  <2>1. ASSUME l.x \notin disturbed, IsDag(l.graph) PROVE l.e.completed = l.graph.stages
    <3>1. /\ l.e.completed \subseteq l.graph.stages
          /\ \A s \in l.graph.stages : Upstream(s, l.graph) \subseteq l.e.completed => s \in l.e.completed
      BY <1>4, <2>1 DEF PPoised
    <3> QED
      BY <1>1, <2>1, <3>1, DagCompleted
  <2>2. l.x \notin disturbed => l.e.failed = {}
    BY DEF PPoised
  <2> QED
    BY <1>4, <2>1, <2>2, FinalizeBecomes
<1>5. ASSUME NEW s \in open, BeginStage(i, m, s)
      PROVE  \E q, f : PBecomes(i, q, f)
  <2>1. s \in PStages /\ s \notin l.e.completed
    BY <1>1
  <2>2. ASSUME l.x \notin disturbed
        PROVE  /\ m.e.status = "running" /\ m.e.failed \subseteq {s} /\ m.e.completed = m.mine
               /\ s \in m.graph.stages \ m.e.completed
               /\ m.e.completed \union m.ready \subseteq m.graph.stages
               /\ \A t \in m.graph.stages : Upstream(t, m.graph) \subseteq m.mine =>
                    t \in m.ready \union m.e.completed \union {s}
               /\ \A t \in PStages \ (m.e.completed \union {s}) : m.runs[t] = 0 /\ m.e.retries[t] = 0
               /\ m.runs[s] = m.e.retries[s]
    BY <1>2, <1>5, <2>1, <2>2 DEF PPoised
  <2> HIDE DEF m, open
  <2> QED
    BY <1>2, <1>5, <2>1, <2>2, BeginBecomes
<1>6. CASE /\ ptasks' = [ptasks EXCEPT ![i] = r]
           /\ pexecs' = IF l.e = ptasks[i].e THEN pexecs ELSE [pexecs EXCEPT ![l.x] = l.e]
           /\ UNCHANGED ptask
  <2>1. ASSUME l.x \notin disturbed PROVE Steady(r)
    <3>1. StageInHand(r) = {}
      BY <1>3 DEF StageInHand
    <3> QED
      BY <1>3, <2>1, <3>1 DEF Steady, PWorking, PPoised
  <2>2. PICK e : /\ pexecs' = [pexecs EXCEPT ![r.x] = e]
                 /\ l.x \notin disturbed => e.status \in {"running", "paused", "cancelled"}
    <3>1. CASE l.e = ptasks[i].e
      <4>1. pexecs' = [pexecs EXCEPT ![r.x] = pexecs[r.x]]
        BY <1>3, <1>6, <3>1, ProperFound
      <4>2. l.x \notin disturbed => pexecs[r.x].status \in {"running", "paused", "cancelled"}
        BY <1>3, ProperFound DEF Proper, Fit
      <4> QED
        BY <4>1, <4>2
    <3>2. CASE l.e # ptasks[i].e
      BY <1>3, <1>6, <3>2 DEF PPoised
    <3> QED
      BY <3>1, <3>2
  <2> HIDE DEF r, open, m
  <2>3. ASSUME l.x \notin disturbed PROVE Proper(r, e)
    <3>1. r.pc \in PWorking /\ r.e.status = "running"
      BY <1>3, <2>3 DEF PWorking, PPoised
    <3> QED
      BY <2>1, <2>2, <2>3, <3>1, RunningFits
  <2>4. PBecomes(i, r, e)
    BY <1>3, <1>6, <2>2, <2>3 DEF PBecomes
  <2> QED
    BY <2>4
<1> QED
  BY <1>4, <1>5, <1>6 DEF PTurn

\* One step of a task.
LEMMA PTaskStepBecomes ==
  ASSUME PInv, QInv, NEW i \in DOMAIN ptasks, PTaskSteps(i)
  PROVE  \E r, f : PBecomes(i, r, f)
<1> DEFINE l == ptasks[i]
           st == pexecs[l.x].status
<1>1. /\ l \in PTask /\ l.e \in PExecution /\ Counted(l)
      /\ l.x \notin disturbed => Fit(l, st) /\ Steady(l) /\ Proper(l, pexecs[l.x])
  BY ProperFound DEF Proper
<1>2. /\ l.runs \in [PStages -> Nat] /\ l.e.retries \in [PStages -> 0..StageRetries]
      /\ l.e.completed \subseteq PStages /\ l.graph \in PipelineGraphs /\ StageRetries \in Nat
      /\ l.ready \subseteq PStages /\ l.mine \subseteq PStages
  BY <1>1, PTaskFields, PipelineAssumption
<1>3. l.graph.stages \subseteq PStages /\ l.graph.edges \subseteq l.graph.stages \X l.graph.stages
  BY <1>2, PipelineAssumption
<1>4. l.pc \in OnStage => l.stage \in PStages
  BY <1>1 DEF Counted
<1>5. QuietFrame => disturbed' = disturbed /\ pcancels' = pcancels
  BY DEF QuietFrame, PipelineFrame
<1>6. ASSUME l.x \notin disturbed, l.pc \in PWorking
      PROVE  l.e.status = "running" /\ st \in {"running", "paused", "cancelled"}
  BY <1>1, <1>6 DEF Fit
<1>7. l.x = ptasks[i].x /\ l.graph = ptasks[i].graph /\ l.pc = ptasks[i].pc /\ l.e = ptasks[i].e
  OBVIOUS
<1> HIDE DEF l
<1>s. CASE PTaskStarts(i)
  <2> DEFINE e == PWith(l.e, "running")
  <2>1. PStore(i, l, e, "started") /\ QuietFrame /\ l.pc = "new"
    BY <1>s DEF PTaskStarts, PResumes, l
  <2>2. /\ e.status = "running" /\ e.completed = l.e.completed /\ e.failed = l.e.failed
        /\ e.retries = l.e.retries
    BY <1>1 DEF PExecution, PWith
  <2> HIDE DEF e
  <2>3. ASSUME NEW r, r.graph = l.graph, r.ready = l.ready, r.mine = l.mine, r.runs = l.runs,
               r.e = e, r.pc = "started", l.x \notin disturbed
        PROVE  Proper(r, e)
    <3>1. StageInHand(r) = {} /\ StageInHand(l) = {} /\ Steady(l)
      BY <1>1, <2>1, <2>3 DEF StageInHand
    <3>2. Steady(r)
      BY <2>1, <2>2, <2>3, <3>1 DEF Steady, PWorking
    <3> QED
      BY <2>2, <2>3, <3>2, RunningFits DEF PWorking
  <2> QED
    BY <1>1, <1>5, <1>7, <2>1, <2>3, PStoreBecomes
<1>t. CASE PTaskTurns(i)
  <2> DEFINE first == {s \in l.graph.stages : Upstream(s, l.graph) = {}}
             m == [l EXCEPT !.ready = first]
  <2>1. QuietFrame
    BY <1>t DEF PTaskTurns
  <2>2. CASE l.pc = "started" /\ PTurn(i, m)
    <3>1. /\ m \in PTask /\ m.x = l.x /\ m.e = l.e /\ m.runs = l.runs /\ m.graph = l.graph
          /\ m.mine = l.mine /\ m.ready = first
      BY <1>1, <1>3 DEF PTask
    <3> HIDE DEF m
    <3>2. ASSUME l.x \notin disturbed PROVE PPoised(m)
      <4>1. Steady(l) /\ StageInHand(l) = {} /\ l.e.status = "running"
        BY <1>1, <1>6, <2>2, <3>2 DEF StageInHand, PWorking
      <4> QED
        BY <2>2, <3>1, <4>1 DEF Steady, PPoised, PWorking
    <3>3. ptasks[i].pc \in PWorking
      BY <1>7, <2>2 DEF PWorking
    <3> QED
      BY <1>5, <1>7, <2>1, <2>2, <3>1, <3>2, <3>3, PTurnBecomes
  <2>3. CASE l.pc = "sleep" /\ PTurn(i, l)
    <3>1. ASSUME l.x \notin disturbed PROVE PPoised(l)
      <4>1. Steady(l) /\ StageInHand(l) = {} /\ l.e.status = "running"
        BY <1>1, <1>6, <2>3, <3>1 DEF StageInHand, PWorking
      <4> QED
        BY <2>3, <4>1 DEF Steady, PPoised, PWorking
    <3>2. ptasks[i].pc \in PWorking
      BY <1>7, <2>3 DEF PWorking
    <3> QED
      BY <1>1, <1>5, <1>7, <2>1, <2>3, <3>1, <3>2, PTurnBecomes
  <2> QED
    BY <1>t, <2>2, <2>3 DEF PTaskTurns, PResumes, l
<1>e. CASE StageExecutes(i)
  <2> DEFINE q == [l.runs EXCEPT ![l.stage] = @ + 1]
             r == [l EXCEPT !.pc = "stage", !.runs = q]
  <2>1. l.pc = "begun" /\ QuietFrame /\ UNCHANGED pexecs
    BY <1>e DEF StageExecutes, PResumes, l
  <2>2. l.stage \in PStages
    BY <1>4, <2>1 DEF OnStage
  <2>3. ptasks' = [ptasks EXCEPT ![i] = r]
    <3>1. [l EXCEPT !.pc = "stage", !.runs[l.stage] = @ + 1] = r
      BY <1>1 DEF PTask
    <3> QED
      BY <1>e, <3>1 DEF StageExecutes, l
  <2>4. /\ q[l.stage] = l.runs[l.stage] + 1
        /\ \A s \in PStages \ {l.stage} : q[s] = l.runs[s]
    BY <1>2, <2>2
  <2> HIDE DEF q
  <2>5. /\ r.x = l.x /\ r.pc = "stage" /\ r.e = l.e /\ r.stage = l.stage /\ r.runs = q
        /\ r.graph = l.graph /\ r.ready = l.ready /\ r.mine = l.mine
    BY <1>1 DEF PTask
  <2> HIDE DEF r
  <2>6. ASSUME l.x \notin disturbed PROVE Proper(r, pexecs[r.x])
    <3>1. Steady(l) /\ StageInHand(l) = {l.stage} /\ StageInHand(r) = {l.stage}
      BY <1>1, <2>1, <2>5, <2>6 DEF StageInHand
    <3>2. Steady(r)
      BY <2>1, <2>4, <2>5, <3>1 DEF Steady, PWorking
    <3>3. l.pc \in PWorking /\ r.pc \in PWorking
      BY <2>1, <2>5 DEF PWorking
    <3> QED
      BY <1>6, <2>5, <2>6, <3>2, <3>3, RunningFits
  <2>7. r.pc # "new"
    BY <2>5
  <2> QED
    BY <1>5, <1>7, <2>1, <2>3, <2>5, <2>6, <2>7, PStayBecomes
<1>r. CASE StageReturns(i)
  <2> DEFINE e == CompleteStage(l.e, l.stage)
  <2>1. l.pc = "stage" /\ PStore(i, l, e, "staged") /\ QuietFrame
    BY <1>r DEF StageReturns, PResumes, l
  <2>2. /\ e.status = l.e.status /\ e.completed = l.e.completed \union {l.stage}
        /\ e.failed = l.e.failed \ {l.stage} /\ e.retries = l.e.retries
    BY <1>1 DEF PExecution, CompleteStage
  <2> HIDE DEF e
  <2>3. ASSUME NEW r, r.graph = l.graph, r.ready = l.ready, r.mine = l.mine, r.runs = l.runs,
               r.stage = l.stage, r.e = e, r.pc = "staged", l.x \notin disturbed
        PROVE  Proper(r, e)
    <3>1. StageInHand(r) = {} /\ StageInHand(l) = {l.stage} /\ Steady(l)
      BY <1>1, <2>1, <2>3 DEF StageInHand
    <3>2. Steady(r)
      BY <2>1, <2>2, <2>3, <3>1 DEF Steady, PWorking
    <3>3. l.pc \in PWorking /\ r.pc \in PWorking
      BY <2>1, <2>3 DEF PWorking
    <3> QED
      BY <1>6, <2>2, <2>3, <3>2, <3>3, RunningFits
  <2> QED
    BY <1>1, <1>5, <1>7, <2>1, <2>3, PStoreBecomes
<1>x. CASE StageRaises(i)
  <2> DEFINE e == FailStage(l.e, l.stage)
  <2>1. /\ l.pc \in {"stage", "staged"} /\ PStore(i, l, e, "failing") /\ PipelineFrame
        /\ disturbed' = disturbed \union {x \in {l.x} : l.pc = "staged"}
    BY <1>x DEF StageRaises, PResumes, l
  <2>2. /\ e.status = l.e.status /\ e.completed = l.e.completed
        /\ e.failed = l.e.failed \union {l.stage} /\ e.retries = l.e.retries
    BY <1>1 DEF PExecution, FailStage
  <2> HIDE DEF e
  <2>3. ASSUME NEW r, r.graph = l.graph, r.ready = l.ready, r.mine = l.mine, r.runs = l.runs,
               r.stage = l.stage, r.e = e, r.pc = "failing", l.x \notin disturbed'
        PROVE  Proper(r, e)
    <3>1. l.pc = "stage" /\ l.x \notin disturbed
      BY <2>1, <2>3
    <3>2. StageInHand(r) = {l.stage} /\ StageInHand(l) = {l.stage} /\ Steady(l)
      BY <1>1, <2>3, <3>1 DEF StageInHand
    <3>3. Steady(r)
      BY <2>2, <2>3, <3>1, <3>2 DEF Steady, PWorking
    <3>4. l.pc \in PWorking /\ r.pc \in PWorking
      BY <2>3, <3>1 DEF PWorking
    <3> QED
      BY <1>6, <2>2, <2>3, <3>1, <3>3, <3>4, RunningFits
  <2>4. disturbed \subseteq disturbed' /\ pcancels' = pcancels
    BY <2>1 DEF PipelineFrame
  <2> QED
    BY <1>1, <1>7, <2>1, <2>3, <2>4, PStoreBecomes
<1>f. CASE StageFailed(i)
  <2> DEFINE r == [l EXCEPT !.pc = "delay"]
  <2>1. l.pc = "failing" /\ QuietFrame
    BY <1>f DEF StageFailed, PResumes, l
  <2>2. CASE ptasks' = [ptasks EXCEPT ![i] = r] /\ UNCHANGED <<pexecs, ptask>>
    <3>1. /\ r.x = l.x /\ r.pc = "delay" /\ r.e = l.e /\ r.stage = l.stage /\ r.runs = l.runs
          /\ r.graph = l.graph /\ r.ready = l.ready /\ r.mine = l.mine
      BY <1>1 DEF PTask
    <3> HIDE DEF r
    <3>2. ASSUME l.x \notin disturbed PROVE Proper(r, pexecs[r.x])
      <4>1. Steady(l) /\ StageInHand(l) = {l.stage} /\ StageInHand(r) = {l.stage}
        BY <1>1, <2>1, <3>1, <3>2 DEF StageInHand
      <4>2. Steady(r)
        BY <2>1, <3>1, <4>1 DEF Steady, PWorking
      <4>3. l.pc \in PWorking /\ r.pc \in PWorking
        BY <2>1, <3>1 DEF PWorking
      <4> QED
        BY <1>6, <3>1, <3>2, <4>2, <4>3, RunningFits
    <3>3. r.pc # "new"
      BY <3>1
    <3> QED
      BY <1>5, <1>7, <2>1, <2>2, <3>1, <3>2, <3>3, PStayBecomes
  <2>3. CASE l.e.retries[l.stage] >= StageRetries /\ Finalize(i, l)
    <3>1. ASSUME l.x \notin disturbed
          PROVE  /\ l.e.failed # {}
                 /\ \E s \in l.e.failed \ l.e.completed : l.runs[s] = StageRetries + 1
      <4>1. l.stage \in PStages /\ l.e.retries[l.stage] \in 0..StageRetries
        BY <1>2, <1>4, <2>1 DEF OnStage
      <4>2. l.e.retries[l.stage] = StageRetries
        BY <1>2, <2>3, <4>1
      <4>3. l.e.failed = {l.stage} /\ l.stage \notin l.e.completed /\ l.runs[l.stage] = StageRetries + 1
        BY <1>1, <2>1, <3>1, <4>2 DEF Steady
      <4> QED
        BY <4>3
    <3> QED
      BY <1>1, <1>5, <1>7, <2>1, <2>3, <3>1, FinalizeBecomes
  <2> QED
    BY <1>f, <2>2, <2>3 DEF StageFailed, l
<1>y. CASE StageRetried(i)
  <2> DEFINE e == IncrementRetry(l.e, l.stage)
             m == [l EXCEPT !.e = e]
  <2>1. l.pc = "delay" /\ QuietFrame
    BY <1>y DEF StageRetried, PResumes, l
  <2>2. l.stage \in PStages
    BY <1>4, <2>1 DEF OnStage
  <2>3. l.e.retries[l.stage] + 1 \in 0..StageRetries
    <3>1. l.e.retries[l.stage] \in 0..StageRetries /\ l.e.retries[l.stage] < StageRetries
      BY <1>1, <1>2, <2>1, <2>2 DEF Counted
    <3> QED
      BY <1>2, <3>1
  <2>4. /\ e \in PExecution /\ e.completed = l.e.completed /\ e.failed = l.e.failed /\ e.status = l.e.status
        /\ e.retries = [l.e.retries EXCEPT ![l.stage] = @ + 1]
    BY <1>1, <1>2, <2>2, <2>3 DEF IncrementRetry, PExecution
  <2>5. /\ e.retries[l.stage] = l.e.retries[l.stage] + 1
        /\ \A s \in PStages \ {l.stage} : e.retries[s] = l.e.retries[s]
    BY <1>2, <2>2, <2>4
  <2> HIDE DEF e
  <2>6. /\ m \in PTask /\ m.x = l.x /\ m.e = e /\ m.runs = l.runs /\ m.graph = l.graph
        /\ m.ready = l.ready /\ m.mine = l.mine
    BY <1>1, <2>4 DEF PTask
  <2>7. \/ BeginStage(i, m, l.stage)
        \/ l.stage \in e.completed /\ PTurn(i, m)
    BY <1>y DEF StageRetried, e, l
  <2> HIDE DEF m
  <2>8. CASE BeginStage(i, m, l.stage)
    <3>1. ASSUME l.x \notin disturbed
          PROVE  /\ m.e.status = "running" /\ m.e.failed \subseteq {l.stage} /\ m.e.completed = m.mine
                 /\ l.stage \in m.graph.stages \ m.e.completed
                 /\ m.e.completed \union m.ready \subseteq m.graph.stages
                 /\ \A t \in m.graph.stages : Upstream(t, m.graph) \subseteq m.mine =>
                      t \in m.ready \union m.e.completed \union {l.stage}
                 /\ \A t \in PStages \ (m.e.completed \union {l.stage}) : m.runs[t] = 0 /\ m.e.retries[t] = 0
                 /\ m.runs[l.stage] = m.e.retries[l.stage]
      <4>1. Steady(l) /\ StageInHand(l) = {l.stage} /\ l.e.status = "running"
        BY <1>1, <1>6, <2>1, <3>1 DEF StageInHand, PWorking
      <4>2. /\ m.e.status = "running" /\ m.e.failed \subseteq {l.stage} /\ m.e.completed = m.mine
            /\ l.stage \in m.graph.stages \ m.e.completed
            /\ m.e.completed \union m.ready \subseteq m.graph.stages
        BY <2>1, <2>4, <2>6, <4>1 DEF Steady, PWorking
      <4>3. ASSUME NEW t \in m.graph.stages, Upstream(t, m.graph) \subseteq m.mine
            PROVE  t \in m.ready \union m.e.completed \union {l.stage}
        BY <2>1, <2>4, <2>6, <4>1, <4>3 DEF Steady, PWorking
      <4>4. ASSUME NEW t \in PStages \ (m.e.completed \union {l.stage})
            PROVE  m.runs[t] = 0 /\ m.e.retries[t] = 0
        <5>1. l.runs[t] = 0 /\ l.e.retries[t] = 0
          BY <2>1, <2>4, <2>6, <4>1 DEF Steady, PWorking
        <5> QED
          BY <2>5, <2>6, <5>1
      <4>5. m.runs[l.stage] = m.e.retries[l.stage]
        BY <2>1, <2>5, <2>6, <4>1 DEF Steady
      <4> QED
        BY <4>2, <4>3, <4>4, <4>5
    <3> QED
      BY <1>5, <1>7, <2>1, <2>2, <2>6, <2>8, <3>1, BeginBecomes
  <2>9. CASE l.stage \in e.completed /\ PTurn(i, m)
    <3>1. l.x \in disturbed
      BY <1>1, <2>1, <2>4, <2>9 DEF Steady
    <3> QED
      BY <1>5, <1>7, <2>1, <2>6, <2>9, <3>1, PTurnBecomes
  <2> QED
    BY <2>7, <2>8, <2>9
<1>d. CASE StageDone(i)
  <2> DEFINE freed == {s \in Downstream(l.stage, l.graph) :
                         /\ Upstream(s, l.graph) \subseteq l.mine \union {l.stage}
                         /\ s \notin l.e.completed}
             m == [l EXCEPT !.ready = @ \union freed, !.mine = @ \union {l.stage}]
  <2>1. l.pc = "staged" /\ QuietFrame /\ PTurn(i, m)
    BY <1>d DEF StageDone, PResumes, l
  <2>2. l.stage \in PStages
    BY <1>4, <2>1 DEF OnStage
  <2>3. freed \subseteq l.graph.stages
    BY <1>3 DEF Downstream
  <2>4. \A s \in l.graph.stages : /\ Upstream(s, l.graph) \subseteq l.mine \union {l.stage}
                                  /\ l.stage \in Upstream(s, l.graph)
                                  => s \in freed \union l.e.completed
    BY DEF Downstream, Upstream
  <2> HIDE DEF freed
  <2>5. /\ m \in PTask /\ m.x = l.x /\ m.e = l.e /\ m.runs = l.runs /\ m.graph = l.graph
        /\ m.ready = l.ready \union freed /\ m.mine = l.mine \union {l.stage}
    BY <1>1, <1>2, <1>3, <2>2, <2>3 DEF PTask
  <2> HIDE DEF m
  <2>6. ASSUME l.x \notin disturbed PROVE PPoised(m)
    <3>1. Steady(l) /\ StageInHand(l) = {} /\ l.e.status = "running"
      BY <1>1, <1>6, <2>1, <2>6 DEF StageInHand, PWorking
    <3>2. \A s \in l.graph.stages : Upstream(s, l.graph) \subseteq l.mine \union {l.stage} =>
            s \in l.ready \union freed \union l.e.completed
      <4> SUFFICES ASSUME NEW s \in l.graph.stages, Upstream(s, l.graph) \subseteq l.mine \union {l.stage}
                   PROVE  s \in l.ready \union freed \union l.e.completed
        OBVIOUS
      <4>1. CASE l.stage \in Upstream(s, l.graph)
        BY <2>4, <4>1
      <4>2. CASE l.stage \notin Upstream(s, l.graph)
        <5>1. Upstream(s, l.graph) \subseteq l.mine
          BY <4>2
        <5> QED
          BY <2>1, <3>1, <5>1 DEF Steady, PWorking
      <4> QED
        BY <4>1, <4>2
    <3> QED
      BY <2>1, <2>3, <2>5, <3>1, <3>2 DEF Steady, PPoised, PWorking
  <2>7. ptasks[i].pc \in PWorking
    BY <1>7, <2>1 DEF PWorking
  <2> QED
    BY <1>5, <1>7, <2>1, <2>5, <2>6, <2>7, PTurnBecomes
<1>m. ASSUME NEW pc \in {"done", "dead"}, ptasks' = [ptasks EXCEPT ![i] = PEnded(@, pc)], UNCHANGED pexecs,
             disturbed \subseteq disturbed', pcancels' = pcancels,
             l.x \notin disturbed' => l.pc \in {"ending", "closing"}
      PROVE  \E r, f : PBecomes(i, r, f)
  <2> DEFINE r == PEnded(l, pc)
  <2>1. r.x = l.x /\ r.graph = l.graph /\ r.runs = l.runs /\ r.pc = pc
    BY <1>1 DEF PTask, PEnded
  <2>2. ptasks' = [ptasks EXCEPT ![i] = r]
    BY <1>m DEF l
  <2> HIDE DEF r
  <2>3. ASSUME l.x \notin disturbed' PROVE Proper(r, pexecs[r.x])
    <3>1. Steady(r)
      BY <1>m, <2>1, SteadyEnds
    <3>2. Fit(l, st) /\ Earned(l, pexecs[l.x])
      BY <1>1, <1>m, <2>3 DEF Proper
    <3>3. Fit(r, st)
      BY <1>m, <2>1, <2>3, <3>2 DEF Fit, PWorking
    <3>4. Earned(r, pexecs[l.x])
      BY <2>1, <3>2 DEF Earned
    <3> QED
      BY <2>1, <3>1, <3>3, <3>4 DEF Proper
  <2>4. r.pc # "new"
    BY <1>m, <2>1
  <2> QED
    BY <1>7, <1>m, <2>1, <2>2, <2>3, <2>4, PStayBecomes
<1>z. CASE PTaskEnds(i)
  <2>1. /\ ptasks' = [ptasks EXCEPT ![i] = PEnded(@, "done")] /\ UNCHANGED pexecs
        /\ QuietFrame /\ l.pc \in {"ending", "closing"}
    BY <1>z DEF PTaskEnds, PFinally, PResumes, l
  <2> QED
    BY <1>5, <1>m, <2>1
<1>c. CASE PTaskCrashes(i)
  <2>1. disturbed' = disturbed \union {l.x} /\ pcancels' = pcancels
    BY <1>c DEF PTaskCrashes, PipelineFrame, l
  <2>2. CASE PStore(i, l, PWith(l.e, "failed"), "closing")
    <3> DEFINE e == PWith(l.e, "failed")
    <3>1. l.x \in disturbed' /\ disturbed \subseteq disturbed'
      BY <2>1
    <3>2. PStore(i, l, e, "closing")
      BY <2>2
    <3> HIDE DEF e
    <3> QED
      BY <1>1, <1>7, <2>1, <3>1, <3>2, PStoreBecomes
  <2>3. CASE PFinally(i, "dead")
    BY <1>m, <2>1, <2>3 DEF PFinally
  <2> QED
    BY <1>c, <2>2, <2>3 DEF PTaskCrashes, PResumes, l
<1>k. CASE PTaskCancelled(i)
  <2>1. l.cancelled /\ QuietFrame
    BY <1>k DEF PTaskCancelled, l
  <2>2. CASE l.pc = "new" /\ ptasks' = [ptasks EXCEPT ![i] = PEnded(@, "done")] /\ UNCHANGED <<pexecs, ptask>>
    <3>1. l.x \in disturbed
      BY <1>1, <2>1, <2>2 DEF Fit
    <3> QED
      BY <1>5, <1>m, <2>1, <2>2, <3>1
  <2>3. CASE l.pc = "closing" /\ PFinally(i, "done")
    BY <1>5, <1>m, <2>1, <2>3 DEF PFinally
  <2>4. CASE PStore(i, [l EXCEPT !.cancelled = FALSE], PWith(l.e, "cancelled"), "closing")
    <3> DEFINE m == [l EXCEPT !.cancelled = FALSE]
               e == PWith(l.e, "cancelled")
    <3>1. m \in PTask /\ m.x = l.x /\ e.status = "cancelled"
      BY <1>1 DEF PTask, PWith, PExecution
    <3>2. PStore(i, m, e, "closing")
      BY <2>4
    <3> HIDE DEF m, e
    <3>3. ASSUME NEW r, r.pc = "closing" PROVE Proper(r, e)
      <4>1. Steady(r)
        BY <3>3, SteadyEnds
      <4> QED
        BY <3>1, <3>3, <4>1 DEF Proper, Fit, Earned, PWorking
    <3> QED
      BY <1>5, <1>7, <2>1, <3>1, <3>2, <3>3, PStoreBecomes
  <2> QED
    BY <1>k, <2>2, <2>3, <2>4 DEF PTaskCancelled, l
<1> QED
  BY <1>s, <1>t, <1>e, <1>r, <1>x, <1>f, <1>y, <1>d, <1>z, <1>c, <1>k DEF PTaskSteps

\* A pipeline is launched.
LEMMA LaunchKeepsOutcomes ==
  ASSUME PInv, QInv, LaunchPipeline
  PROVE  QInv'
<1> DEFINE e == NewPExecution
           x == Len(pexecs) + 1
           r == NewPTask(x, e)
           n == Len(ptasks) + 1
<1>1. /\ Len(pexecs) \in Nat /\ DOMAIN pexecs = 1..Len(pexecs)
      /\ Len(ptasks) \in Nat /\ DOMAIN ptasks = 1..Len(ptasks)
      /\ \A i \in DOMAIN ptasks : ptasks[i].x \in DOMAIN pexecs
      /\ pexecs \in Seq(PExecution) /\ ptasks \in Seq(PTask)
  BY PTypes DEF PInv
<1>2. \A c \in pcancels : c.x \in DOMAIN pexecs
  BY DEF PInv, PipelineTypeOK
<1>3. /\ pexecs' = Append(pexecs, e) /\ ptasks' = Append(ptasks, r)
      /\ UNCHANGED <<pcancels, disturbed>>
  BY DEF LaunchPipeline
<1>4. e.status = "pending" /\ e.completed = {} /\ e.failed = {} /\ \A s \in PStages : e.retries[s] = 0
  BY DEF NewPExecution
<1>5. /\ r.x = x /\ r.e = e /\ r.pc = "new" /\ r.mine = {} /\ r.ready = {} /\ ~r.cancelled
      /\ \A s \in PStages : r.runs[s] = 0
  BY DEF NewPTask
<1> HIDE DEF e, r
<1>6. Proper(r, e)
  <2>1. Fit(r, e.status)
    BY <1>4, <1>5 DEF Fit, PWorking
  <2>2. Steady(r)
    BY <1>4, <1>5 DEF Steady, PWorking
  <2>3. Earned(r, e)
    BY <1>4 DEF Earned
  <2> QED
    BY <2>1, <2>2, <2>3 DEF Proper
<1>7. x \notin DOMAIN pexecs /\ x \in Nat
  BY <1>1
<1>8. /\ DOMAIN pexecs' = DOMAIN pexecs \union {x} /\ pexecs'[x] = e
      /\ \A y \in DOMAIN pexecs : pexecs'[y] = pexecs[y]
  BY <1>1, <1>3
<1>9. DOMAIN ptasks' = DOMAIN ptasks \union {n} /\ ptasks'[n] = r /\ n \notin DOMAIN ptasks
      /\ \A i \in DOMAIN ptasks : ptasks'[i] = ptasks[i]
  BY <1>1, <1>3
<1> HIDE DEF x, n
<1>10. \A i, j \in DOMAIN ptasks' : ptasks'[i].x = ptasks'[j].x /\ ptasks'[i].x \notin disturbed' => i = j
  BY <1>1, <1>3, <1>5, <1>7, <1>9 DEF QInv
<1>11. \A y \in DOMAIN pexecs' \ disturbed' : \E i \in DOMAIN ptasks' : ptasks'[i].x = y
  BY <1>3, <1>5, <1>8, <1>9 DEF QInv
<1>12. \A i \in DOMAIN ptasks' : ptasks'[i].x \notin disturbed' => Proper(ptasks'[i], pexecs'[ptasks'[i].x])
  BY <1>1, <1>3, <1>5, <1>6, <1>8, <1>9 DEF QInv
<1>13. \A c \in pcancels', i \in DOMAIN ptasks' :
         ptasks'[i].x = c.x /\ c.x \notin disturbed' => ptasks'[i].pc # "new"
  BY <1>2, <1>3, <1>5, <1>7, <1>9 DEF QInv
<1> QED
  BY <1>10, <1>11, <1>12, <1>13 DEF QInv

\* Two tasks with the same locals; one may have been asked to cancel.
SameTask(r, l) ==
  /\ r.x = l.x /\ r.e = l.e /\ r.graph = l.graph /\ r.ready = l.ready /\ r.mine = l.mine
  /\ r.runs = l.runs /\ r.stage = l.stage /\ r.pc = l.pc

\* A client pauses or cancels an execution whose task is under way or has ended.
LEMMA SameProper ==
  ASSUME NEW r, NEW l, SameTask(r, l), NEW e, NEW f, Proper(l, e),
         l.pc = "new" => r.cancelled = l.cancelled,
         f = e \/ (f.status = "paused" /\ e.status = "running") \/ (f.status = "cancelled" /\ l.pc # "new")
  PROVE  Proper(r, f)
<1>1. Steady(r)
  BY DEF Proper, Steady, SameTask, StageInHand, PWorking
<1>2. Fit(r, f.status)
  BY DEF Proper, Fit, SameTask, PWorking
<1>3. Earned(r, f)
  BY DEF Proper, Earned, SameTask
<1> QED
  BY <1>1, <1>2, <1>3 DEF Proper

\* A client changes executions, and calls of cancel_execution, but no task.
LEMMA ClientKeepsOutcomes ==
  ASSUME PInv, QInv, DOMAIN ptasks' = DOMAIN ptasks,
         \A i \in DOMAIN ptasks : SameTask(ptasks'[i], ptasks[i]),
         \A i \in DOMAIN ptasks : ptasks[i].x \notin disturbed /\ ptasks[i].pc = "new" =>
           ptasks'[i].cancelled = ptasks[i].cancelled,
         DOMAIN pexecs' = DOMAIN pexecs, disturbed' = disturbed,
         \A i \in DOMAIN ptasks : ptasks[i].x \notin disturbed =>
           LET e == pexecs[ptasks[i].x]
               f == pexecs'[ptasks[i].x]
           IN f = e \/ (f.status = "paused" /\ e.status = "running")
                    \/ (f.status = "cancelled" /\ ptasks[i].pc # "new"),
         \A c \in pcancels' : c \in pcancels \/
           (c.x \in DOMAIN pexecs /\ pexecs[c.x].status \in {"running", "paused"})
  PROVE  QInv'
<1>1. \A i \in DOMAIN ptasks : ptasks'[i].x = ptasks[i].x /\ ptasks'[i].pc = ptasks[i].pc
  BY DEF SameTask
<1>2. ASSUME NEW i \in DOMAIN ptasks, ptasks[i].x \notin disturbed
      PROVE  Proper(ptasks'[i], pexecs'[ptasks[i].x])
  <2>1. Proper(ptasks[i], pexecs[ptasks[i].x])
    BY <1>2 DEF QInv
  <2> QED
    BY <1>2, <2>1, SameProper
<1>3. ASSUME NEW c \in pcancels', NEW i \in DOMAIN ptasks, ptasks[i].x = c.x, c.x \notin disturbed
      PROVE  ptasks[i].pc # "new"
  <2>1. CASE c \in pcancels
    BY <1>3, <2>1 DEF QInv
  <2>2. CASE pexecs[c.x].status \in {"running", "paused"}
    <3>1. Fit(ptasks[i], pexecs[c.x].status)
      BY <1>3 DEF QInv, Proper
    <3> QED
      BY <2>2, <3>1 DEF Fit
  <2> QED
    BY <1>3, <2>1, <2>2
<1> QED
  BY <1>1, <1>2, <1>3 DEF QInv

\* An execution that is not disturbed and runs or is paused has a task under
\* way, so that resuming it disturbs it.
LEMMA TaskUnderWay ==
  ASSUME PInv, QInv, NEW x \in DOMAIN pexecs \ disturbed, pexecs[x].status \in {"running", "paused"}
  PROVE  \E i \in DOMAIN ptasks : ptasks[i].x = x /\ PAlive(i) /\ ptasks[i].pc # "new"
<1>1. PICK i \in DOMAIN ptasks : ptasks[i].x = x
  BY DEF QInv
<1>2. Fit(ptasks[i], pexecs[x].status)
  BY <1>1 DEF QInv, Proper
<1> QED
  BY <1>1, <1>2 DEF Fit, PAlive, PWorking

\* A paused execution has a task at work, so resume_execution disturbs it and
\* QInv says nothing of it from then on.
LEMMA ResumeKeepsOutcomes ==
  ASSUME PInv, QInv, NEW x \in DOMAIN pexecs, ResumePipeline(x)
  PROVE  QInv'
<1> DEFINE e == PWith(pexecs[x], "running")
           r == NewPTask(x, e)
           n == Len(ptasks) + 1
<1>1. /\ pexecs \in Seq(PExecution) /\ ptasks \in Seq(PTask) /\ Len(ptasks) \in Nat
      /\ DOMAIN ptasks = 1..Len(ptasks) /\ \A i \in DOMAIN ptasks : ptasks[i].x \in DOMAIN pexecs
  BY PTypes DEF PInv
<1>2. /\ disturbed \subseteq disturbed' /\ x \in disturbed' /\ pcancels' = pcancels
  <2>1. pexecs[x].status = "paused"
    BY DEF ResumePipeline
  <2>2. x \in disturbed \/ \E i \in DOMAIN ptasks : ptasks[i].x = x /\ PAlive(i)
    BY <2>1, TaskUnderWay
  <2> QED
    BY <2>2 DEF ResumePipeline
<1>3. DOMAIN pexecs' = DOMAIN pexecs /\ \A y \in DOMAIN pexecs \ {x} : pexecs'[y] = pexecs[y]
  BY <1>1 DEF ResumePipeline
<1>4. r.x = x
  BY DEF NewPTask
<1> HIDE DEF e, r
<1>5. /\ DOMAIN ptasks \subseteq DOMAIN ptasks' /\ \A i \in DOMAIN ptasks : ptasks'[i] = ptasks[i]
      /\ \A i \in DOMAIN ptasks' \ DOMAIN ptasks : ptasks'[i].x = x
  <2>1. CASE UNCHANGED ptasks
    BY <2>1
  <2>2. CASE ptasks' = Append(ptasks, r)
    <3>1. DOMAIN ptasks' = DOMAIN ptasks \union {n} /\ ptasks'[n] = r /\ \A i \in DOMAIN ptasks : ptasks'[i] = ptasks[i]
      BY <1>1, <2>2
    <3> HIDE DEF n
    <3> QED
      BY <1>4, <3>1
  <2> QED
    BY <2>1, <2>2 DEF ResumePipeline, r, e
<1> HIDE DEF n
<1>6. \A i \in DOMAIN ptasks' : ptasks'[i].x \notin disturbed' => i \in DOMAIN ptasks /\ ptasks[i].x # x
  BY <1>2, <1>5
<1>7. \A i, j \in DOMAIN ptasks' : ptasks'[i].x = ptasks'[j].x /\ ptasks'[i].x \notin disturbed' => i = j
  BY <1>2, <1>5, <1>6 DEF QInv
<1>8. \A y \in DOMAIN pexecs' \ disturbed' : \E i \in DOMAIN ptasks' : ptasks'[i].x = y
  BY <1>2, <1>3, <1>5 DEF QInv
<1>9. \A i \in DOMAIN ptasks' : ptasks'[i].x \notin disturbed' => Proper(ptasks'[i], pexecs'[ptasks'[i].x])
  BY <1>1, <1>2, <1>3, <1>5, <1>6 DEF QInv
<1>10. \A c \in pcancels', i \in DOMAIN ptasks' :
         ptasks'[i].x = c.x /\ c.x \notin disturbed' => ptasks'[i].pc # "new"
  BY <1>2, <1>5, <1>6 DEF QInv
<1> QED
  BY <1>7, <1>8, <1>9, <1>10 DEF QInv

\* Tasks that a call does not touch are the same.
LEMMA SameTasks ==
  ASSUME ptasks' = ptasks
  PROVE  /\ DOMAIN ptasks' = DOMAIN ptasks
         /\ \A i \in DOMAIN ptasks : /\ SameTask(ptasks'[i], ptasks[i])
                                     /\ ptasks'[i].cancelled = ptasks[i].cancelled
  BY DEF SameTask

\* _execution_tasks has a task of the execution.
EntriesOwn == \A x \in 1..MaxPExecs : ptask[x] # 0 => ptasks[ptask[x]].x = x

\* An entry of _execution_tasks stays a task of its execution.
LEMMA EntriesStayOwn ==
  ASSUME PInv, QInv, EntriesOwn, [PipelineNext]_pipelineVars
  PROVE  EntriesOwn'
<1>1. /\ ptask \in [1..MaxPExecs -> 0..MaxPTasks] /\ \A x \in 1..MaxPExecs : ptask[x] <= Len(ptasks)
      /\ Len(ptasks) \in Nat /\ DOMAIN ptasks = 1..Len(ptasks) /\ ptasks \in Seq(PTask)
      /\ \A i \in DOMAIN ptasks : ptasks[i].x \in 1..MaxPExecs
      /\ MaxPExecs \in Nat /\ MaxPTasks \in Nat
  BY PTypes DEF PInv, PipelineTypeOK
<1>2. \A x \in 1..MaxPExecs : ptask[x] # 0 => ptask[x] \in DOMAIN ptasks
  BY <1>1
<1>3. ASSUME \A i \in DOMAIN ptasks : ptasks'[i].x = ptasks[i].x,
             \A x \in 1..MaxPExecs : ptask'[x] \in {0, ptask[x]}
      PROVE  EntriesOwn'
  BY <1>2, <1>3 DEF EntriesOwn
<1>4. ASSUME UNCHANGED <<ptasks, ptask>> PROVE EntriesOwn'
  BY <1>4 DEF EntriesOwn
<1>5. ASSUME NEW x \in 1..MaxPExecs, NEW e, ptasks' = Append(ptasks, NewPTask(x, e)),
             ptask' = [ptask EXCEPT ![x] = Len(ptasks) + 1]
      PROVE  EntriesOwn'
  <2> DEFINE r == NewPTask(x, e)
             n == Len(ptasks) + 1
  <2>1. r.x = x
    BY DEF NewPTask
  <2> HIDE DEF r
  <2>2. ptasks'[n] = r /\ \A i \in DOMAIN ptasks : ptasks'[i] = ptasks[i]
    BY <1>1, <1>5 DEF r
  <2>3. ptask'[x] = n /\ \A y \in 1..MaxPExecs \ {x} : ptask'[y] = ptask[y]
    BY <1>1, <1>5
  <2> HIDE DEF n
  <2> QED
    BY <1>2, <2>1, <2>2, <2>3 DEF EntriesOwn
<1>6. CASE DefinitionSteps(PipelineGraphs, BOOLEAN)
  BY <1>4, <1>6 DEF DefinitionSteps, CreatePipeline, UpdatePipeline, SetSchedule, DeletePipeline, DefinitionFrame
<1>7. CASE LaunchPipeline
  <2>1. Len(pexecs) + 1 \in 1..MaxPExecs
    BY <1>1, <1>7, PTypes DEF LaunchPipeline, PInv
  <2> QED
    BY <1>5, <1>7, <2>1 DEF LaunchPipeline
<1>8. ASSUME NEW x \in DOMAIN pexecs, CancelPipeline(x) PROVE EntriesOwn'
  <2>1. ptask' = ptask
    BY <1>8 DEF CancelPipeline
  <2>2. CASE UNCHANGED ptasks
    BY <1>4, <2>1, <2>2
  <2>3. CASE ptasks' = [ptasks EXCEPT ![ptask[x]].cancelled = TRUE]
    <3>1. \A i \in DOMAIN ptasks : ptasks'[i] = ptasks[i] \/ ptasks'[i] = [ptasks[i] EXCEPT !.cancelled = TRUE]
      BY <2>3
    <3>2. \A l \in PTask : [l EXCEPT !.cancelled = TRUE].x = l.x
      BY DEF PTask
    <3>3. \A i \in DOMAIN ptasks : ptasks'[i].x = ptasks[i].x
      BY <3>1, <3>2, PTypes DEF PInv
    <3> QED
      BY <1>3, <2>1, <3>3
  <2> QED
    BY <1>8, <2>2, <2>3 DEF CancelPipeline
<1>9. ASSUME NEW c \in pcancels, CancelPipelineReturns(c) PROVE EntriesOwn'
  <2>1. ptasks' = ptasks /\ (ptask' = ptask \/ ptask' = [ptask EXCEPT ![c.x] = 0])
    BY <1>9 DEF CancelPipelineReturns
  <2>2. \A x \in 1..MaxPExecs : ptask'[x] \in {0, ptask[x]}
    BY <1>1, <2>1
  <2> QED
    BY <1>3, <2>1, <2>2
<1>10. ASSUME NEW x \in DOMAIN pexecs, ResumePipeline(x) PROVE EntriesOwn'
  <2>1. x \in 1..MaxPExecs
    BY PTypes DEF PInv
  <2> QED
    BY <1>4, <1>5, <1>10, <2>1 DEF ResumePipeline
<1>11. ASSUME NEW i \in DOMAIN ptasks, PTaskSteps(i) PROVE EntriesOwn'
  <2>1. PICK r, f : PBecomes(i, r, f)
    BY <1>11, PTaskStepBecomes
  <2>2. \A j \in DOMAIN ptasks : ptasks'[j].x = ptasks[j].x
    BY <1>1, <2>1 DEF PBecomes
  <2>3. ptask' = ptask \/ ptask' = [ptask EXCEPT ![ptasks[i].x] = 0]
    BY <1>11 DEF PTaskSteps, PTaskStarts, PTaskTurns, StageExecutes, StageReturns, StageRaises, StageFailed,
       StageRetried, StageDone, PTaskEnds, PTaskCrashes, PTaskCancelled, PTurn, PStore, PFinally, Finalize, BeginStage
  <2>4. \A x \in 1..MaxPExecs : ptask'[x] \in {0, ptask[x]}
    BY <1>1, <2>3
  <2> QED
    BY <1>3, <2>2, <2>4
<1>12. CASE UNCHANGED pipelineVars
  BY <1>4, <1>12 DEF pipelineVars
<1>13. ASSUME NEW x \in DOMAIN pexecs, PausePipeline(x) PROVE EntriesOwn'
  BY <1>4, <1>13 DEF PausePipeline
<1> QED
  BY <1>6, <1>7, <1>8, <1>9, <1>10, <1>11, <1>12, <1>13
     DEF PipelineNext, ExecutionSteps, ExecutePipeline, RollbackPipeline

\* cancel_execution stores cancelled, or flags a task that has begun.
LEMMA CancelKeepsOutcomes ==
  ASSUME PInv, QInv, EntriesOwn, NEW x \in DOMAIN pexecs, CancelPipeline(x)
  PROVE  QInv'
<1>1. /\ pexecs \in Seq(PExecution) /\ pexecs[x] \in PExecution
      /\ \A i \in DOMAIN ptasks : ptasks[i] \in PTask /\ ptasks[i].x \in DOMAIN pexecs
  BY PTypes DEF PInv
<1>2. pexecs[x].status \in {"running", "paused"} /\ disturbed' = disturbed
  BY DEF CancelPipeline
<1>3. ASSUME NEW i \in DOMAIN ptasks, ptasks[i].x = x, x \notin disturbed PROVE ptasks[i].pc # "new"
  BY <1>2, <1>3 DEF QInv, Proper, Fit
<1>4. CASE pexecs' = [pexecs EXCEPT ![x].status = "cancelled"] /\ UNCHANGED <<ptasks, pcancels>>
  <2>1. /\ DOMAIN pexecs' = DOMAIN pexecs /\ pexecs'[x].status = "cancelled"
        /\ \A y \in DOMAIN pexecs \ {x} : pexecs'[y] = pexecs[y]
    BY <1>1, <1>4 DEF PExecution
  <2>2. \A i \in DOMAIN ptasks : ptasks[i].x \notin disturbed =>
          \/ pexecs'[ptasks[i].x] = pexecs[ptasks[i].x]
          \/ pexecs'[ptasks[i].x].status = "cancelled" /\ ptasks[i].pc # "new"
    BY <1>1, <1>3, <2>1
  <2> QED
    BY <1>2, <1>4, <2>1, <2>2, SameTasks, ClientKeepsOutcomes
<1>5. CASE /\ ptasks' = [ptasks EXCEPT ![ptask[x]].cancelled = TRUE]
           /\ pcancels' = {[x |-> x, e |-> pexecs[x], task |-> ptask[x]]} /\ UNCHANGED pexecs
  <2>1. DOMAIN ptasks' = DOMAIN ptasks
    BY <1>5
  <2>2. \A i \in DOMAIN ptasks : ptasks'[i] = ptasks[i] \/ (i = ptask[x] /\ ptasks'[i] = [ptasks[i] EXCEPT !.cancelled = TRUE])
    BY <1>5
  <2>3. \A c \in pcancels' : c.x = x
    BY <1>5
  <2>4. \A l \in PTask : SameTask([l EXCEPT !.cancelled = TRUE], l) /\ SameTask(l, l)
    BY DEF PTask, SameTask
  <2>5. \A i \in DOMAIN ptasks : SameTask(ptasks'[i], ptasks[i])
    BY <1>1, <2>2, <2>4
  <2>6. ptask[x] \in DOMAIN ptasks => ptasks[ptask[x]].x = x
    BY PTypes DEF EntriesOwn, PInv
  <2>7. ASSUME NEW i \in DOMAIN ptasks, ptasks[i].x \notin disturbed, ptasks[i].pc = "new"
        PROVE  ptasks'[i].cancelled = ptasks[i].cancelled
    BY <1>3, <2>2, <2>6, <2>7
  <2> QED
    BY <1>2, <1>5, <2>1, <2>3, <2>5, <2>7, ClientKeepsOutcomes
<1> QED
  BY <1>4, <1>5 DEF CancelPipeline

\* Every step keeps QInv.
LEMMA NextKeepsOutcomes ==
  ASSUME PInv, QInv, EntriesOwn, [PipelineNext]_pipelineVars
  PROVE  QInv'
<1>1. ASSUME UNCHANGED <<pexecs, ptasks, pcancels, disturbed>> PROVE QInv'
  BY <1>1 DEF QInv
<1>2. CASE DefinitionSteps(PipelineGraphs, BOOLEAN)
  BY <1>1, <1>2 DEF DefinitionSteps, CreatePipeline, UpdatePipeline, SetSchedule, DeletePipeline, DefinitionFrame
<1>3. ASSUME NEW x \in DOMAIN pexecs, PausePipeline(x) PROVE QInv'
  <2>1. pexecs \in Seq(PExecution) /\ pexecs[x] \in PExecution
    BY PTypes DEF PInv
  <2>2. /\ pexecs[x].status = "running" /\ pexecs' = [pexecs EXCEPT ![x].status = "paused"]
        /\ UNCHANGED <<ptasks, pcancels, disturbed>>
    BY <1>3 DEF PausePipeline
  <2>3. /\ DOMAIN pexecs' = DOMAIN pexecs /\ pexecs'[x].status = "paused"
        /\ \A y \in DOMAIN pexecs \ {x} : pexecs'[y] = pexecs[y]
    BY <2>1, <2>2 DEF PExecution
  <2>4. \A i \in DOMAIN ptasks :
          \/ pexecs'[ptasks[i].x] = pexecs[ptasks[i].x]
          \/ pexecs'[ptasks[i].x].status = "paused" /\ pexecs[ptasks[i].x].status = "running"
    BY <2>2, <2>3, PTypes DEF PInv
  <2> QED
    BY <2>2, <2>3, <2>4, SameTasks, ClientKeepsOutcomes
<1>4. ASSUME NEW c \in pcancels, CancelPipelineReturns(c) PROVE QInv'
  <2>1. c.x \in DOMAIN pexecs /\ c.e \in PExecution /\ pexecs \in Seq(PExecution)
    BY DEF PInv, PipelineTypeOK
  <2> DEFINE e == PWith(c.e, "cancelled")
  <2>2. e.status = "cancelled"
    BY <2>1 DEF PWith, PExecution
  <2>3. /\ pexecs' = pexecs \/ pexecs' = [pexecs EXCEPT ![c.x] = e]
        /\ pcancels' \subseteq pcancels /\ UNCHANGED <<ptasks, disturbed>>
    BY <1>4 DEF CancelPipelineReturns
  <2> HIDE DEF e
  <2>4. /\ DOMAIN pexecs' = DOMAIN pexecs /\ \A y \in DOMAIN pexecs \ {c.x} : pexecs'[y] = pexecs[y]
        /\ pexecs'[c.x] = pexecs[c.x] \/ pexecs'[c.x].status = "cancelled"
    BY <2>1, <2>2, <2>3
  <2>5. \A i \in DOMAIN ptasks : ptasks[i].x \notin disturbed =>
          \/ pexecs'[ptasks[i].x] = pexecs[ptasks[i].x]
          \/ pexecs'[ptasks[i].x].status = "cancelled" /\ ptasks[i].pc # "new"
    BY <2>4, PTypes DEF PInv, QInv
  <2> QED
    BY <2>3, <2>4, <2>5, SameTasks, ClientKeepsOutcomes
<1>5. ASSUME NEW i \in DOMAIN ptasks, PTaskSteps(i) PROVE QInv'
  BY <1>5, PTaskStepBecomes, PBecomesKeeps
<1>6. CASE UNCHANGED pipelineVars
  BY <1>1, <1>6 DEF pipelineVars
<1>7. CASE ExecutePipeline
  BY <1>7, LaunchKeepsOutcomes DEF ExecutePipeline
<1>8. ASSUME NEW x \in DOMAIN pexecs, RollbackPipeline(x) \/ CancelPipeline(x) \/ ResumePipeline(x)
      PROVE  QInv'
  BY <1>8, LaunchKeepsOutcomes, CancelKeepsOutcomes, ResumeKeepsOutcomes DEF RollbackPipeline
<1> QED
  BY <1>2, <1>3, <1>4, <1>5, <1>6, <1>7, <1>8 DEF PipelineNext, ExecutionSteps

\* QInv is an invariant.
LEMMA OutcomesHold == PipelineSpec => [](QInv /\ EntriesOwn)
<1>1. PipelineInit => QInv /\ EntriesOwn
  BY DEF PipelineInit, NothingExecuted, QInv, EntriesOwn
<1>2. PInv /\ (QInv /\ EntriesOwn) /\ [PipelineNext]_pipelineVars => (QInv /\ EntriesOwn)'
  BY NextKeepsOutcomes, EntriesStayOwn
<1> QED
  BY <1>1, <1>2, PInvHolds, PTL DEF PipelineSpec

\* OutcomeEarned is an invariant: an execution that was not disturbed fails
\* only after _execute_stage has used up the retries of a stage that never
\* completed, and completes only with no failed stage left and, on a graph
\* that validate_pipeline accepts, with every stage completed.
THEOREM OutcomesEarned == PipelineSpec => []OutcomeEarned
<1>1. QInv => OutcomeEarned
  BY DEF QInv, Proper, Earned, OutcomeEarned
<1> QED
  BY <1>1, OutcomesHold, PTL
=============================================================================
