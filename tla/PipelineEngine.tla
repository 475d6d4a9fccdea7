--------------------------- MODULE PipelineEngine ---------------------------
(***************************************************************************)
(* PipelineEngineImpl (core/pipeline/engine.py) for one pipeline: its      *)
(* definition and schedule, its executions, and the asyncio tasks that run *)
(* _run_execution.  As in WorkflowEngine a task works on a copy of the     *)
(* execution and stores it over what clients stored, and publications may  *)
(* raise.  Stages are retried, and a failed one ends the execution.        *)
(*                                                                         *)
(* The stages may be listed in any order, so ready_queue is a set; a stage *)
(* that is to be retried stands at its head and is taken at once.  A       *)
(* retry_count above that of the stage is not reached: it is raised only   *)
(* while it is below.  _running_executions is written and never read, and  *)
(* _pipeline_versions is never written.                                    *)
(***************************************************************************)
EXTENDS Integers, Sequences, FiniteSets

CONSTANTS
  PStages,       \* the stages of pipelines
  PipelineGraphs,\* the stages and edges clients may give one
  StageRetries,  \* PipelineStage.retry_count
  MaxPExecs,     \* bound: executions
  MaxPTasks      \* bound: tasks

ASSUME PipelineAssumption ==
  /\ \A g \in PipelineGraphs : /\ g.stages \subseteq PStages /\ IsFiniteSet(g.stages)
                               /\ g.edges \subseteq g.stages \X g.stages
  /\ {StageRetries, MaxPExecs, MaxPTasks} \subseteq Nat
  /\ "none" \notin PStages

VARIABLES
  pipeline,     \* the entry of _pipelines
  schedule,     \* the pipeline is in _schedules
  pexecs,       \* _executions, in order of creation
  ptasks,       \* the tasks, in order of creation
  ptask,        \* ptask[x]: the task in _execution_tasks, or 0
  pcancels,     \* calls of cancel_execution that await a task
  disturbed     \* history: executions of which a publication raised, or that
                \* were resumed while a task of theirs was alive

pipelineVars == <<pipeline, schedule, pexecs, ptasks, ptask, pcancels, disturbed>>

NoStage == "none"
PExecution ==
  [status : {"pending", "running", "paused", "completed", "failed", "cancelled"},
   completed : SUBSET PStages, failed : SUBSET PStages, retries : [PStages -> 0..StageRetries]]

\* new: not yet run.  Then the await a task is suspended in: the publication
\* of PIPELINE_STARTED, of STAGE_STARTED, the stage, the publication of
\* STAGE_COMPLETED, of STAGE_FAILED, the delay before a retry, the sleep before
\* a stage is looked at again, the last publication, or that of the two outer
\* handlers.  done: ended; dead: ended by an exception.
PTaskPC == {"new", "started", "begun", "stage", "staged", "failing", "delay", "sleep",
            "ending", "closing", "done", "dead"}
PTask ==
  [x : 1..MaxPExecs, e : PExecution, graph : PipelineGraphs, ready : SUBSET PStages,
   mine : SUBSET PStages, runs : [PStages -> Nat], stage : PStages \union {NoStage},
   pc : PTaskPC, cancelled : BOOLEAN]
PAlive(i) == ptasks[i].pc \notin {"done", "dead"}

NoPipeline == [status |-> "absent"]

PipelineTypeOK ==
  /\ pipeline \in [status : {"draft", "active"}, graph : PipelineGraphs, cron : BOOLEAN]
                    \union {NoPipeline, [status |-> "deleted"]}
  /\ schedule \in BOOLEAN
  /\ pexecs \in Seq(PExecution) /\ Len(pexecs) <= MaxPExecs
  /\ ptasks \in Seq(PTask) /\ Len(ptasks) <= MaxPTasks
  /\ \A i \in DOMAIN ptasks : ptasks[i].x \in DOMAIN pexecs
  /\ ptask \in [1..MaxPExecs -> 0..MaxPTasks]
  /\ \A x \in DOMAIN ptask : ptask[x] <= Len(ptasks)
  /\ pcancels \subseteq [x : 1..MaxPExecs, e : PExecution, task : 1..MaxPTasks]
  /\ \A c \in pcancels : c.x \in DOMAIN pexecs /\ c.task \in DOMAIN ptasks
  /\ disturbed \subseteq DOMAIN pexecs

NothingExecuted ==
  /\ pexecs = <<>> /\ ptasks = <<>> /\ pcancels = {}
  /\ ptask = [x \in 1..MaxPExecs |-> 0]
  /\ disturbed = {}

PipelineInit == pipeline = NoPipeline /\ schedule = FALSE /\ NothingExecuted

Defined == pipeline.status \in {"draft", "active"}

Upstream(s, g) == {e[1] : e \in {d \in g.edges : d[2] = s}}
Downstream(s, g) == {e[2] : e \in {d \in g.edges : d[1] = s}}

\* validate_pipeline: Kahn's algorithm in rounds, as in WorkflowEngine.
SortedStages(g) ==
  LET Taken[k \in Nat] ==
        IF k = 0 THEN {} ELSE {s \in g.stages : Upstream(s, g) \subseteq Taken[k - 1]}
  IN Taken

IsDag(g) == SortedStages(g)[Cardinality(g.stages)] = g.stages

-----------------------------------------------------------------------------
(* PipelineExecution (domain/pipeline.py). *)

NewPExecution ==
  [status |-> "pending", completed |-> {}, failed |-> {}, retries |-> [s \in PStages |-> 0]]
PWith(e, s) == [e EXCEPT !.status = s]

CompleteStage(e, s) == [e EXCEPT !.completed = @ \union {s}, !.failed = @ \ {s}]
FailStage(e, s) == [e EXCEPT !.failed = @ \union {s}]

\* Mutant: the retry is not counted.
IncrementNothing(e, s) == e

IncrementRetry(e, s) == [e EXCEPT !.retries[s] = @ + 1]

-----------------------------------------------------------------------------
(* Definition and schedule. *)

DefinitionFrame == UNCHANGED <<pexecs, ptasks, ptask, pcancels, disturbed>>

CreatePipeline(g, cron) ==
  /\ pipeline = NoPipeline
  /\ pipeline' = [status |-> "draft", graph |-> g, cron |-> cron]
  /\ schedule' = cron
  /\ DefinitionFrame

\* New stages or edges make a new version, a draft again, whatever status is asked for.
\* An update without a cron expression leaves the schedule alone; one with an
\* empty expression takes it away.
UpdatePipeline(g, st, cron) ==
  /\ Defined
  /\ pipeline' = [status |-> IF g # pipeline.graph THEN "draft" ELSE st, graph |-> g, cron |-> cron]
  /\ schedule' = IF cron # pipeline.cron THEN cron ELSE schedule
  /\ DefinitionFrame

\* schedule_pipeline and unschedule_pipeline.
SetSchedule(on) ==
  /\ Defined /\ (on \/ schedule)
  /\ schedule' = on
  /\ pipeline' = [pipeline EXCEPT !.cron = on]
  /\ DefinitionFrame

DeletePipeline ==
  /\ Defined /\ \A x \in DOMAIN pexecs : pexecs[x].status # "running"
  /\ pipeline' = [status |-> "deleted"] /\ schedule' = FALSE
  /\ DefinitionFrame

-----------------------------------------------------------------------------
(* Executions. *)

NewPTask(x, e) ==
  [x |-> x, e |-> e, graph |-> pipeline.graph, ready |-> {}, mine |-> {},
   runs |-> [s \in PStages |-> 0], stage |-> NoStage, pc |-> "new", cancelled |-> FALSE]

LaunchPipeline ==
  LET x == Len(pexecs) + 1 IN
  /\ x <= MaxPExecs /\ Len(ptasks) < MaxPTasks
  /\ pexecs' = Append(pexecs, NewPExecution)
  /\ ptasks' = Append(ptasks, NewPTask(x, NewPExecution))
  /\ ptask' = [ptask EXCEPT ![x] = Len(ptasks) + 1]
  /\ UNCHANGED <<pipeline, schedule, pcancels, disturbed>>

ExecutePipeline == pipeline.status = "active" /\ LaunchPipeline

\* A rollback to an execution runs what the pipeline now is once more, with
\* that execution's inputs, active or not.
RollbackPipeline(x) == Defined /\ x \in DOMAIN pexecs /\ LaunchPipeline

\* With a task, the call keeps the copy it read and awaits the task.
CancelPipeline(x) ==
  /\ pexecs[x].status \in {"running", "paused"}
  /\ \/ /\ ptask[x] = 0
        /\ pexecs' = [pexecs EXCEPT ![x].status = "cancelled"]
        /\ UNCHANGED <<ptasks, pcancels>>
     \/ /\ ptask[x] # 0 /\ pcancels = {}
        /\ ptasks' = [ptasks EXCEPT ![ptask[x]].cancelled = TRUE]
        /\ pcancels' = {[x |-> x, e |-> pexecs[x], task |-> ptask[x]]}
        /\ UNCHANGED pexecs
  /\ UNCHANGED <<pipeline, schedule, ptask, disturbed>>

\* del raises KeyError when the task's own finally clause removed its entry;
\* an exception of the task ends the call as well.
CancelPipelineReturns(c) ==
  /\ ~PAlive(c.task)
  /\ pcancels' = pcancels \ {c}
  /\ \/ /\ ptasks[c.task].pc = "done" /\ ptask[c.x] # 0
        /\ ptask' = [ptask EXCEPT ![c.x] = 0]
        /\ pexecs' = [pexecs EXCEPT ![c.x] = PWith(c.e, "cancelled")]
     \/ /\ ptasks[c.task].pc = "dead" \/ ptask[c.x] = 0
        /\ UNCHANGED <<ptask, pexecs>>
  /\ UNCHANGED <<pipeline, schedule, ptasks, disturbed>>

PausePipeline(x) ==
  /\ pexecs[x].status = "running"
  /\ pexecs' = [pexecs EXCEPT ![x].status = "paused"]
  /\ UNCHANGED <<pipeline, schedule, ptasks, ptask, pcancels, disturbed>>

\* For a deleted pipeline KeyError comes after the new status is stored.
ResumePipeline(x) ==
  /\ pexecs[x].status = "paused" /\ Len(ptasks) < MaxPTasks
  /\ pexecs' = [pexecs EXCEPT ![x].status = "running"]
  /\ \/ /\ Defined
        /\ ptasks' = Append(ptasks, NewPTask(x, PWith(pexecs[x], "running")))
        /\ ptask' = [ptask EXCEPT ![x] = Len(ptasks) + 1]
     \/ /\ ~Defined
        /\ UNCHANGED <<ptasks, ptask>>
  /\ disturbed' = disturbed \union {y \in {x} : \E i \in DOMAIN ptasks : ptasks[i].x = x /\ PAlive(i)}
  /\ UNCHANGED <<pipeline, schedule, pcancels>>

-----------------------------------------------------------------------------
(* _run_execution. *)

\* Task i, whose locals are now l, stores the copy e and awaits at pc.
PStore(i, l, e, pc) ==
  /\ pexecs' = [pexecs EXCEPT ![l.x] = e]
  /\ ptasks' = [ptasks EXCEPT ![i] = [l EXCEPT !.e = e, !.pc = pc]]
  /\ UNCHANGED ptask

PEnded(l, pc) ==
  [l EXCEPT !.e = NewPExecution, !.ready = {}, !.mine = {}, !.stage = NoStage, !.pc = pc,
            !.cancelled = FALSE]

\* The finally clause forgets the task of the execution, whichever it is.
PFinally(i, pc) ==
  /\ ptasks' = [ptasks EXCEPT ![i] = PEnded(@, pc)]
  /\ ptask' = [ptask EXCEPT ![ptasks[i].x] = 0]
  /\ UNCHANGED pexecs

\* Finalize, when the while loop ends or is left by break.
Finalize(i, l) ==
  PStore(i, l, PWith(l.e, IF l.e.failed # {} THEN "failed" ELSE "completed"), "ending")

BeginStage(i, l, s) == PStore(i, [l EXCEPT !.ready = @ \ {s}, !.stage = s], l.e, "begun")

\* The top of the while loop, up to its next await; a copy that changed since
\* the last one is stored.
PTurn(i, l) ==
  LET open == l.ready \ l.e.completed IN
  \/ /\ open = {}
     /\ Finalize(i, l)
  \/ \E s \in open :
       \/ /\ Upstream(s, l.graph) \subseteq l.e.completed
          /\ BeginStage(i, [l EXCEPT !.ready = open], s)
       \/ /\ ~(Upstream(s, l.graph) \subseteq l.e.completed)
          /\ ptasks' = [ptasks EXCEPT ![i] = [l EXCEPT !.ready = open, !.pc = "sleep"]]
          /\ pexecs' = IF l.e = ptasks[i].e THEN pexecs ELSE [pexecs EXCEPT ![l.x] = l.e]
          /\ UNCHANGED ptask

PResumes(i, pc) == ptasks[i].pc = pc /\ ~ptasks[i].cancelled
PipelineFrame == UNCHANGED <<pipeline, schedule, pcancels>>
QuietFrame == PipelineFrame /\ UNCHANGED disturbed

PTaskStarts(i) ==
  /\ PResumes(i, "new")
  /\ PStore(i, ptasks[i], PWith(ptasks[i].e, "running"), "started")
  /\ QuietFrame

\* The graph is built when PIPELINE_STARTED is published; then the first turn.
PTaskTurns(i) ==
  LET l == ptasks[i] IN
  /\ \/ /\ PResumes(i, "started")
        /\ PTurn(i, [l EXCEPT !.ready = {s \in l.graph.stages : Upstream(s, l.graph) = {}}])
     \/ /\ PResumes(i, "sleep")
        /\ PTurn(i, l)
  /\ QuietFrame

StageExecutes(i) ==
  LET l == ptasks[i] IN
  /\ PResumes(i, "begun")
  /\ ptasks' = [ptasks EXCEPT ![i] = [l EXCEPT !.pc = "stage", !.runs[l.stage] = @ + 1]]
  /\ QuietFrame /\ UNCHANGED <<pexecs, ptask>>

StageReturns(i) ==
  /\ PResumes(i, "stage")
  /\ PStore(i, ptasks[i], CompleteStage(ptasks[i].e, ptasks[i].stage), "staged")
  /\ QuietFrame

\* The stage raises, or the publication of its completion does.
StageRaises(i) ==
  LET l == ptasks[i] IN
  /\ PResumes(i, "stage") \/ PResumes(i, "staged")
  /\ PStore(i, l, FailStage(l.e, l.stage), "failing")
  /\ disturbed' = disturbed \union {x \in {l.x} : l.pc = "staged"}
  /\ PipelineFrame

\* STAGE_FAILED is published: the stage is retried, or the loop is left.
StageFailed(i) ==
  LET l == ptasks[i] IN
  /\ PResumes(i, "failing")
  /\ \/ /\ l.e.retries[l.stage] < StageRetries
        /\ ptasks' = [ptasks EXCEPT ![i].pc = "delay"]
        /\ UNCHANGED <<pexecs, ptask>>
     \/ /\ l.e.retries[l.stage] >= StageRetries
        /\ Finalize(i, l)
  /\ QuietFrame

\* Mutant: the stage is not put back into the queue.
StageForgotten(i) ==
  /\ PResumes(i, "delay")
  /\ PTurn(i, [ptasks[i] EXCEPT !.e = IncrementRetry(@, ptasks[i].stage)])
  /\ QuietFrame

\* retry_delay_seconds are over.  A stage that completed before the publication
\* raised is skipped, and with it what depends on it.
StageRetried(i) ==
  LET l == ptasks[i]
      e == IncrementRetry(l.e, l.stage)
  IN /\ PResumes(i, "delay")
     /\ \/ /\ l.stage \notin e.completed
           /\ BeginStage(i, [l EXCEPT !.e = e], l.stage)
        \/ /\ l.stage \in e.completed
           /\ PTurn(i, [l EXCEPT !.e = e])
     /\ QuietFrame

\* STAGE_COMPLETED is published: the stages are queued whose dependencies this
\* task has all executed.
StageDone(i) ==
  LET l == ptasks[i]
      freed == {s \in Downstream(l.stage, l.graph) :
                  /\ Upstream(s, l.graph) \subseteq l.mine \union {l.stage}
                  /\ s \notin l.e.completed}
  IN /\ PResumes(i, "staged")
     /\ PTurn(i, [l EXCEPT !.ready = @ \union freed, !.mine = @ \union {l.stage}])
     /\ QuietFrame

PTaskEnds(i) ==
  /\ PResumes(i, "ending") \/ PResumes(i, "closing")
  /\ PFinally(i, "done")
  /\ QuietFrame

\* A publication outside the inner try raises; in a handler it ends the task.
PTaskCrashes(i) ==
  /\ \/ /\ \E pc \in {"started", "begun", "failing", "ending"} : PResumes(i, pc)
        /\ PStore(i, ptasks[i], PWith(ptasks[i].e, "failed"), "closing")
     \/ /\ PResumes(i, "closing")
        /\ PFinally(i, "dead")
  /\ disturbed' = disturbed \union {ptasks[i].x}
  /\ PipelineFrame

\* CancelledError.  A task that never ran has no finally clause to run.
PTaskCancelled(i) ==
  /\ ptasks[i].cancelled /\ PAlive(i)
  /\ \/ /\ ptasks[i].pc = "new"
        /\ ptasks' = [ptasks EXCEPT ![i] = PEnded(@, "done")]
        /\ UNCHANGED <<pexecs, ptask>>
     \/ /\ ptasks[i].pc = "closing"
        /\ PFinally(i, "done")
     \/ /\ ptasks[i].pc \notin {"new", "closing"}
        /\ PStore(i, [ptasks[i] EXCEPT !.cancelled = FALSE], PWith(ptasks[i].e, "cancelled"),
                  "closing")
  /\ QuietFrame

PTaskSteps(i) ==
  \/ PTaskStarts(i) \/ PTaskTurns(i) \/ StageExecutes(i) \/ StageReturns(i) \/ StageRaises(i)
  \/ StageFailed(i) \/ StageRetried(i) \/ StageDone(i) \/ PTaskEnds(i) \/ PTaskCrashes(i)
  \/ PTaskCancelled(i)

\* The definition, with the graphs and cron expressions clients give.
DefinitionSteps(graphs, crons) ==
  \/ \E g \in graphs, cron \in crons :
       \/ CreatePipeline(g, cron)
       \/ \E st \in {"draft", "active"} : UpdatePipeline(g, st, cron)
  \/ \E on \in crons : SetSchedule(on)
  \/ DeletePipeline

ExecutionSteps ==
  \/ ExecutePipeline
  \/ \E x \in DOMAIN pexecs :
       RollbackPipeline(x) \/ CancelPipeline(x) \/ PausePipeline(x) \/ ResumePipeline(x)
  \/ \E c \in pcancels : CancelPipelineReturns(c)
  \/ \E i \in DOMAIN ptasks : PTaskSteps(i)

PipelineNext == DefinitionSteps(PipelineGraphs, BOOLEAN) \/ ExecutionSteps

PipelineSpec == PipelineInit /\ [][PipelineNext]_pipelineVars

-----------------------------------------------------------------------------
(* Properties. *)

\* "Retry policies per stage": one run of _run_execution executes a stage at
\* most once more than its retry_count, whatever clients do meanwhile and
\* whichever copy of the execution it was given.
RetryPolicyKept ==
  \A i \in DOMAIN ptasks : \A s \in PStages : ptasks[i].runs[s] <= StageRetries + 1

\* An execution that no publication disturbed and that was not resumed under a
\* running task fails only because some stage used up its retries and never
\* completed, and completes only with no failed stage left; on a graph that
\* validate_pipeline accepts it has then completed every stage.
OutcomeEarned ==
  \A i \in DOMAIN ptasks :
    LET x == ptasks[i].x
        e == pexecs[x]
    IN x \notin disturbed =>
         /\ e.status = "failed" =>
              \E s \in e.failed \ e.completed : ptasks[i].runs[s] = StageRetries + 1
         /\ e.status = "completed" => /\ e.failed = {}
                                      /\ IsDag(ptasks[i].graph) => e.completed = ptasks[i].graph.stages
=============================================================================
