--------------------------- MODULE BackgroundJobs ---------------------------
(***************************************************************************)
(* BackgroundJobScheduler (core/persistent/scheduler_queue.py): interval   *)
(* and one-shot jobs, each driven by an asyncio task (a loop).             *)
(*                                                                         *)
(* A loop holds a reference to its Job object; start() replaces the        *)
(* objects in _jobs by fresh ones read from disk.  An object is a job and  *)
(* a generation: 0 for the one schedule() made, n for the n-th start().    *)
(* task.cancel() only asks: the loop ends at its next step.                *)
(***************************************************************************)
EXTENDS Integers, Sequences

CONSTANTS
  Jobs,          \* jobs that clients schedule
  MaxRetries,    \* Job.max_retries
  MaxFailures,   \* bound: runs of one object that raise
  MaxLoops,      \* bound: loops created
  MaxStarts      \* bound: calls of start

ASSUME JobsAssumption == /\ MaxRetries \in Nat \ {0}
                         /\ {MaxFailures, MaxLoops, MaxStarts} \subseteq Nat

VARIABLES
  started,    \* _started
  starts,     \* how often start() was called
  loading,    \* the generations whose start() awaits load_jobs
  current,    \* current[j]: the generation of the object in _jobs, or None
  oneShot,    \* the objects of type ONE_SHOT; CRON and INTERVAL loop alike
  status,     \* status[o]: Job.status of the object o
  retries,    \* retries[o]
  handlers,   \* jobs whose handler is in _handlers
  saving,     \* schedule() awaits save_job
  persisted,  \* job files on disk
  loops,      \* the asyncio tasks, in order of creation
  handle,     \* handle[j]: the loop in _tasks, or None
  early       \* history: jobs found in list_jobs and paused, resumed or cancelled
              \* while their schedule() awaited save_job

vars == <<started, starts, loading, current, oneShot, status, retries,
          handlers, saving, persisted, loops, handle, early>>

None == -1
JobStatus == {"pending", "scheduled", "running", "completed", "failed", "cancelled", "paused"}
Gens == 0..MaxStarts
Objects == Jobs \X Gens

\* new: not yet run; then suspended in the sleep, in the handler, or in the
\* publication of the result after the handler returned or raised.
LoopState == {"new", "sleep", "run", "returned", "raised", "done"}
LoopRecord == [obj : Objects, pc : LoopState, cancelled : BOOLEAN]
Loop(o, pc, c) == [obj |-> o, pc |-> pc, cancelled |-> c]

TypeOK ==
  /\ started \in BOOLEAN /\ loading \subseteq Gens
  /\ starts \in Gens
  /\ current \in [Jobs -> Gens \union {None}]
  /\ oneShot \subseteq Objects
  /\ status \in [Objects -> JobStatus \union {"absent"}]
  /\ retries \in [Objects -> Nat]
  /\ handlers \subseteq Jobs /\ saving \subseteq Jobs /\ persisted \subseteq Jobs
  /\ loops \in Seq(LoopRecord)
  /\ handle \in [Jobs -> (1..Len(loops)) \union {None}]
  /\ early \subseteq Jobs

Init ==
  /\ started = FALSE /\ loading = {}
  /\ starts = 0
  /\ current = [j \in Jobs |-> None]
  /\ oneShot = {}
  /\ status = [o \in Objects |-> "absent"]
  /\ retries = [o \in Objects |-> 0]
  /\ handlers = {} /\ saving = {} /\ persisted = {}
  /\ loops = <<>>
  /\ handle = [j \in Jobs |-> None]
  /\ early = {}

\* The status that list_jobs shows.
Status(j) == IF current[j] = None THEN "absent" ELSE status[<<j, current[j]>>]

\* A job that loops.
Repeats(j) == current[j] # None /\ <<j, current[j]>> \notin oneShot

Cancelling(ls, k) == IF ls[k].pc = "done" THEN ls ELSE [ls EXCEPT ![k].cancelled = TRUE]

----------------------------------------------------------------------------
(***************************************************************************)
(* Lifecycle                                                               *)
(***************************************************************************)
Start ==
  /\ ~started
  /\ starts < MaxStarts
  /\ started' = TRUE
  /\ starts' = starts + 1
  /\ loading' = loading \union {starts + 1}
  /\ UNCHANGED <<oneShot, current, status, retries, handlers, saving, persisted, loops, handle, early>>

\* load_jobs gives back id, name, schedule, priority, handler and args; the
\* rest are defaults: the type is INTERVAL, and the status is PENDING, so
\* start() schedules none of the jobs.
StartLoads(g) ==
  /\ g \in loading
  /\ loading' = loading \ {g}
  /\ current' = [j \in Jobs |-> IF j \in persisted THEN g ELSE current[j]]
  /\ status' = [o \in Objects |-> IF o[1] \in persisted /\ o[2] = g
                                  THEN "pending" ELSE status[o]]
  /\ UNCHANGED <<oneShot, started, starts, retries, handlers, saving, persisted, loops, handle, early>>

\* Mutant: stop forgets the loops without cancelling them.
StopForgets ==
  /\ started' = FALSE
  /\ handle' = [j \in Jobs |-> None]
  /\ UNCHANGED <<oneShot, starts, loading, current, status, retries, handlers, saving, persisted, loops, early>>

Stop ==
  /\ started' = FALSE
  /\ loops' = [k \in DOMAIN loops |->
                 IF \E j \in Jobs : handle[j] = k THEN Cancelling(loops, k)[k] ELSE loops[k]]
  /\ handle' = [j \in Jobs |-> None]
  /\ UNCHANGED <<oneShot, starts, loading, current, status, retries, handlers, saving, persisted, early>>

\* The process dies: only the files remain.
Crash ==
  /\ started
  /\ started' = FALSE /\ loading' = {}
  /\ current' = [j \in Jobs |-> None]
  /\ handlers' = {} /\ saving' = {}
  /\ loops' = [k \in DOMAIN loops |-> Loop(loops[k].obj, "done", FALSE)]
  /\ handle' = [j \in Jobs |-> None]
  /\ UNCHANGED <<oneShot, starts, status, retries, persisted, early>>

----------------------------------------------------------------------------
(***************************************************************************)
(* Job management                                                          *)
(***************************************************************************)
RegisterHandler(j) ==
  /\ j \notin handlers
  /\ handlers' = handlers \union {j}
  /\ UNCHANGED <<oneShot, started, starts, loading, current, status, retries, saving, persisted, loops, handle, early>>

\* create_task and the entry in _tasks
ScheduleJob(o) ==
  /\ Len(loops) < MaxLoops
  /\ loops' = Append(loops, Loop(o, "new", FALSE))
  /\ handle' = [handle EXCEPT ![o[1]] = Len(loops) + 1]

Schedule(j) ==
  /\ status[<<j, 0>>] = "absent"
  /\ status' = [status EXCEPT ![<<j, 0>>] = "scheduled"]
  /\ \/ oneShot' = oneShot \union {<<j, 0>>}
     \/ UNCHANGED oneShot
  /\ current' = [current EXCEPT ![j] = 0]
  /\ saving' = saving \union {j}
  /\ UNCHANGED <<started, starts, loading, retries, handlers, persisted, loops, handle, early>>

SaveWritten(j) ==
  /\ j \in saving \ persisted
  /\ persisted' = persisted \union {j}
  /\ UNCHANGED <<oneShot, started, starts, loading, current, status, retries, handlers, saving, loops, handle, early>>

ScheduleReturns(j) ==
  /\ j \in saving \cap persisted
  /\ saving' = saving \ {j}
  /\ ScheduleJob(<<j, 0>>)
  /\ UNCHANGED <<oneShot, started, starts, loading, current, status, retries, handlers, persisted, early>>

\* A client names a job that is in _jobs.
Addressed(j) ==
  /\ current[j] # None
  /\ early' = IF j \in saving THEN early \union {j} ELSE early

\* Mutant: cancel and pause set the status and leave the loop alone.
HaltLabels(j, s) ==
  /\ Addressed(j)
  /\ status' = [status EXCEPT ![<<j, current[j]>>] = s]
  /\ UNCHANGED <<oneShot, started, starts, loading, current, retries, handlers, saving, persisted, loops, handle>>

\* cancel and pause: set the status, forget the loop and ask it to end.
Halt(j, s) ==
  /\ Addressed(j)
  /\ status' = [status EXCEPT ![<<j, current[j]>>] = s]
  /\ loops' = IF handle[j] = None THEN loops ELSE Cancelling(loops, handle[j])
  /\ handle' = [handle EXCEPT ![j] = None]
  /\ UNCHANGED <<oneShot, started, starts, loading, current, retries, handlers, saving, persisted>>

Cancel(j) == Halt(j, "cancelled")
Pause(j)  == Halt(j, "paused")

\* Mutant: resume sets the status and starts no loop.
ResumeQuietly(j) ==
  /\ Addressed(j)
  /\ Status(j) = "paused"
  /\ status' = [status EXCEPT ![<<j, current[j]>>] = "scheduled"]
  /\ UNCHANGED <<oneShot, started, starts, loading, current, retries, handlers, saving, persisted, loops, handle>>

Resume(j) ==
  /\ Addressed(j)
  /\ Status(j) = "paused"
  /\ status' = [status EXCEPT ![<<j, current[j]>>] = "scheduled"]
  /\ ScheduleJob(<<j, current[j]>>)
  /\ UNCHANGED <<oneShot, started, starts, loading, current, retries, handlers, saving, persisted>>

----------------------------------------------------------------------------
(***************************************************************************)
(* The loops.  Each action runs loop k up to its next await.               *)
(***************************************************************************)
At(k, pc) == loops[k].pc = pc /\ ~loops[k].cancelled
Goto(k, pc) == loops' = [loops EXCEPT ![k] = Loop(loops[k].obj, pc, FALSE)]
OnlyLoops == UNCHANGED <<oneShot, started, starts, loading, current, handlers, saving, persisted, handle, early>>

\* while self._started and job.status == SCHEDULED
GoesOn(o) == started /\ status[o] = "scheduled"

LoopBegins(k) ==
  LET o == loops[k].obj IN
  /\ At(k, "new")
  /\ Goto(k, IF o \in oneShot \/ GoesOn(o) THEN "sleep" ELSE "done")
  /\ UNCHANGED <<status, retries>>
  /\ OnlyLoops

\* The sleep is over: _execute_job up to the handler.
LoopWakes(k) ==
  LET o == loops[k].obj IN
  /\ At(k, "sleep")
  /\ IF o \notin oneShot /\ ~GoesOn(o)
     THEN Goto(k, "done") /\ UNCHANGED status
     ELSE \/ /\ o[1] \in handlers
             /\ Goto(k, "run")
             /\ status' = [status EXCEPT ![o] = "running"]
          \/ /\ o[1] \notin handlers
             /\ Goto(k, "raised")
             /\ status' = [status EXCEPT ![o] = "failed"]
  /\ UNCHANGED retries
  /\ OnlyLoops

HandlerReturns(k) ==
  LET o == loops[k].obj IN
  /\ At(k, "run")
  /\ status' = [status EXCEPT ![o] = "scheduled"]
  /\ Goto(k, "returned")
  /\ UNCHANGED retries
  /\ OnlyLoops

\* Mutant: a handler that raised leaves the status at RUNNING.
HandlerRaisesUnnoticed(k) ==
  /\ At(k, "run")
  /\ Goto(k, "raised")
  /\ UNCHANGED <<status, retries>>
  /\ OnlyLoops

HandlerRaises(k) ==
  LET o == loops[k].obj IN
  /\ At(k, "run")
  /\ retries[o] < MaxFailures
  /\ retries' = [retries EXCEPT ![o] = @ + 1]
  /\ status' = [status EXCEPT ![o] = IF retries[o] + 1 >= MaxRetries THEN "failed" ELSE "scheduled"]
  /\ Goto(k, "raised")
  /\ OnlyLoops

\* The result is published: a one-shot is over, an interval job loops.
LoopContinues(k) ==
  LET o == loops[k].obj IN
  /\ At(k, "returned") \/ At(k, "raised")
  /\ \/ /\ o \in oneShot
        /\ status' = [status EXCEPT ![o] = "completed"]
        /\ Goto(k, "done")
     \/ /\ o \notin oneShot
        /\ Goto(k, IF GoesOn(o) THEN "sleep" ELSE "done")
        /\ UNCHANGED status
  /\ UNCHANGED retries
  /\ OnlyLoops

\* CancelledError is raised at the await; a task that has not begun just ends.
LoopCancelled(k) ==
  LET o == loops[k].obj IN
  /\ loops[k].pc # "done" /\ loops[k].cancelled
  /\ status' = IF o \in oneShot /\ loops[k].pc # "new"
               THEN [status EXCEPT ![o] = "cancelled"] ELSE status
  /\ Goto(k, "done")
  /\ UNCHANGED retries
  /\ OnlyLoops

LoopStep(k) ==
  \/ LoopBegins(k)
  \/ LoopWakes(k)
  \/ HandlerReturns(k)
  \/ HandlerRaises(k)
  \/ LoopContinues(k)
  \/ LoopCancelled(k)

Next ==
  \/ Start \/ Stop \/ Crash
  \/ \E g \in Gens : StartLoads(g)
  \/ \E j \in Jobs : RegisterHandler(j) \/ Schedule(j) \/ SaveWritten(j) \/ ScheduleReturns(j)
  \/ \E j \in Jobs : Cancel(j) \/ Pause(j) \/ Resume(j)
  \/ \E k \in DOMAIN loops : LoopStep(k)

Spec == Init /\ [][Next]_vars

(***************************************************************************)
(* The event loop runs every ready task, timers fire and handlers finish.  *)
(***************************************************************************)
Fairness ==
  /\ \A g \in Gens : WF_vars(StartLoads(g))
  /\ \A k \in 1..MaxLoops : WF_vars(k \in DOMAIN loops /\ LoopStep(k))

FairSpec == Spec /\ Fairness

----------------------------------------------------------------------------
(***************************************************************************)
(* Properties                                                              *)
(***************************************************************************)
Live(k) == loops[k].pc # "done" /\ ~loops[k].cancelled

\* A cancelled or paused interval job has no loop that would run it again.
StoppedIsQuiet ==
  \A j \in Jobs \ early : Repeats(j) /\ Status(j) \in {"cancelled", "paused"} =>
    \A k \in DOMAIN loops : Live(k) => loops[k].obj[1] # j

\* A live loop is in _tasks, so that cancel, pause and stop reach it.
NoOrphanLoops ==
  \A k \in DOMAIN loops :
    Live(k) /\ loops[k].obj[1] \notin early => handle[loops[k].obj[1]] = k

\* The client steps in: what follows is no longer up to the scheduler.
Halted(j) == Status(j) \in {"cancelled", "paused"} \/ j \in early

\* An interval job that list_jobs shows with this status, when start() has loaded
\* the jobs and schedule() has returned.
Shown(j, s) == started /\ loading = {} /\ j \notin saving /\ Repeats(j) /\ Status(j) = s

\* A scheduled interval job is run: it gets to RUNNING, or to FAILED for want of a
\* handler, unless the scheduler is stopped or the job halted.  Jobs that a stop()
\* has left SCHEDULED are no longer shown as such when the next start() has
\* loaded: they are PENDING from then on, and are not run.
ScheduledJobsRun ==
  \A j \in Jobs :
    Shown(j, "scheduled") ~> (~started \/ Status(j) \in {"running", "failed"} \/ Halted(j))

\* A run ends: a job that is RUNNING is SCHEDULED again or FAILED, unless the
\* scheduler is stopped or the job halted.
RunsEnd ==
  \A j \in Jobs :
    Shown(j, "running") ~> (~started \/ Status(j) \in {"scheduled", "failed"} \/ Halted(j))

=============================================================================
