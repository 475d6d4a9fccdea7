------------------------ MODULE BackgroundJobsProofs ------------------------
(***************************************************************************)
(* No loop of a background job escapes _tasks, and a stopped job stays     *)
(* quiet, for any number of jobs, loops, restarts and failures.            *)
(***************************************************************************)
EXTENDS BackgroundJobs, TLAPS

\* A job whose schedule() awaits save_job, and that nobody has addressed in the
\* meantime, has neither a loop nor a status that a client has set.
SavingIsNew ==
  \A j \in saving \ early :
    /\ \A k \in DOMAIN loops : loops[k].obj[1] # j
    /\ Status(j) \notin {"cancelled", "paused"}

\* Only a job that was scheduled is in _jobs, on disk or in a loop.
OnlyScheduled ==
  \A j \in Jobs : status[<<j, 0>>] = "absent" =>
    /\ j \notin saving \union persisted /\ current[j] = None
    /\ \A k \in DOMAIN loops : loops[k].obj[1] # j

\* StoppedIsQuiet, and a paused one-shot job has no live loop either.
HaltedIsQuiet ==
  \A j \in Jobs \ early :
    Status(j) = "paused" \/ (Repeats(j) /\ Status(j) = "cancelled") =>
      \A k \in DOMAIN loops : Live(k) => loops[k].obj[1] # j

IInv == TypeOK /\ SavingIsNew /\ OnlyScheduled /\ HaltedIsQuiet /\ NoOrphanLoops

----------------------------------------------------------------------------
\* Every loop is of a job object.
LEMMA LoopsKnown ==
  ASSUME TypeOK
  PROVE  /\ Len(loops) \in Nat /\ DOMAIN loops = 1..Len(loops)
         /\ \A k \in DOMAIN loops :
              /\ loops[k] \in LoopRecord /\ loops[k].obj \in Objects
              /\ loops[k].obj[1] \in Jobs /\ loops[k].cancelled \in BOOLEAN
<1>1. loops \in Seq(LoopRecord)
  BY DEF TypeOK
<1>2. Len(loops) \in Nat /\ DOMAIN loops = 1..Len(loops)
  BY <1>1
<1>3. \A k \in DOMAIN loops : loops[k] \in LoopRecord
  BY <1>1, <1>2
<1>4. \A r \in LoopRecord : r.obj \in Objects /\ r.obj[1] \in Jobs /\ r.cancelled \in BOOLEAN
  BY DEF LoopRecord, Objects
<1> QED
  BY <1>2, <1>3, <1>4

\* A loop goes on, or ends; it writes the status of its own object only, and
\* never a status that a client sets, but for the CANCELLED of a one-shot.
LEMMA LoopMoves ==
  ASSUME IInv, NEW k \in DOMAIN loops, NEW pc \in LoopState, NEW s \in JobStatus,
         Goto(k, pc), Live(k) \/ pc = "done",
         \/ UNCHANGED status
         \/ /\ status' = [status EXCEPT ![loops[k].obj] = s]
            /\ s # "paused" /\ (s = "cancelled" => loops[k].obj \in oneShot),
         retries' \in [Objects -> Nat], OnlyLoops
  PROVE  IInv'
<1> DEFINE o == loops[k].obj
           r == Loop(loops[k].obj, pc, FALSE)
<1>1. /\ TypeOK /\ Len(loops) \in Nat /\ DOMAIN loops = 1..Len(loops)
      /\ o \in Objects /\ o[1] \in Jobs
  BY LoopsKnown DEF IInv
<1>2. r \in LoopRecord /\ r.obj = o /\ r.pc = pc
  BY <1>1 DEF Loop, LoopRecord
<1>3. loops' = [loops EXCEPT ![k] = r]
  BY DEF Goto
<1> HIDE DEF r
<1>4. /\ loops' \in Seq(LoopRecord) /\ DOMAIN loops' = DOMAIN loops /\ Len(loops') = Len(loops)
      /\ loops'[k] = r /\ \A m \in DOMAIN loops \ {k} : loops'[m] = loops[m]
  BY <1>1, <1>2, <1>3 DEF TypeOK
<1>5. \A m \in DOMAIN loops : loops'[m].obj = loops[m].obj /\ (Live(m)' => Live(m))
  BY <1>2, <1>4 DEF Live
<1>6. status' \in [Objects -> JobStatus \union {"absent"}]
  BY <1>1 DEF TypeOK
<1>7. TypeOK'
  BY <1>4, <1>6 DEF IInv, TypeOK, OnlyLoops
<1>8. \A x \in Objects : status'[x] = status[x] \/ (x = o /\ status'[x] = s)
  BY <1>1 DEF TypeOK
<1>9. NoOrphanLoops'
  BY <1>4, <1>5 DEF IInv, NoOrphanLoops, OnlyLoops
<1>10. OnlyScheduled'
  <2> SUFFICES ASSUME NEW j \in Jobs, status'[<<j, 0>>] = "absent"
               PROVE  /\ j \notin saving \union persisted /\ current[j] = None
                      /\ \A m \in DOMAIN loops : loops[m].obj[1] # j
    BY <1>4, <1>5 DEF OnlyScheduled, OnlyLoops
  <2>1. <<j, 0>> \in Objects
    BY JobsAssumption DEF Objects, Gens
  <2>2. status[<<j, 0>>] = "absent"
    BY <1>8, <2>1 DEF JobStatus
  <2> QED
    BY <2>2 DEF IInv, OnlyScheduled
<1>11. \A j \in Jobs : current[j] # None => <<j, current[j]>> \in Objects
  BY DEF IInv, TypeOK, Objects
<1>12. SavingIsNew'
  <2> SUFFICES ASSUME NEW j \in saving \ early
               PROVE  /\ \A m \in DOMAIN loops : loops[m].obj[1] # j
                      /\ Status(j)' \notin {"cancelled", "paused"}
    BY <1>4, <1>5 DEF SavingIsNew, OnlyLoops
  <2>1. j \in Jobs /\ j # o[1]
    BY DEF IInv, TypeOK, SavingIsNew
  <2>2. /\ \A m \in DOMAIN loops : loops[m].obj[1] # j
        /\ Status(j) \notin {"cancelled", "paused"}
    BY DEF IInv, SavingIsNew
  <2>3. Status(j)' = Status(j)
    BY <1>8, <1>11, <2>1 DEF Status, OnlyLoops
  <2> QED
    BY <2>2, <2>3
<1>13. HaltedIsQuiet'
  <2> SUFFICES ASSUME NEW j \in Jobs \ early,
                      Status(j)' = "paused" \/ (Repeats(j)' /\ Status(j)' = "cancelled"),
                      NEW m \in DOMAIN loops, Live(m)'
               PROVE  loops[m].obj[1] # j
    BY <1>4, <1>5 DEF HaltedIsQuiet, OnlyLoops
  <2>1. current[j] # None
    BY DEF Status, OnlyLoops
  <2>2. Status(j)' = Status(j) /\ Repeats(j)' = Repeats(j)
    BY <1>8, <1>11, <2>1 DEF Status, Repeats, OnlyLoops
  <2> QED
    BY <1>5, <2>2 DEF IInv, HaltedIsQuiet
<1> QED
  BY <1>7, <1>9, <1>10, <1>12, <1>13 DEF IInv

\* A step of a scheduler loop keeps the invariant.
LEMMA LoopStepKeeps ==
  ASSUME IInv, NEW k \in DOMAIN loops, LoopStep(k)
  PROVE  IInv'
<1> DEFINE o == loops[k].obj
<1> USE DEF At
<1>1. retries \in [Objects -> Nat] /\ o \in Objects
  BY LoopsKnown DEF IInv, TypeOK
<1>2. {"new", "sleep", "run", "returned", "raised", "done"} \subseteq LoopState
  BY DEF LoopState
<1>3. {"running", "failed", "scheduled", "completed", "cancelled"} \subseteq JobStatus
  BY DEF JobStatus
<1>4. CASE LoopBegins(k)
  BY <1>1, <1>2, <1>3, <1>4, LoopMoves DEF LoopBegins, Live
<1>5. CASE LoopWakes(k)
  BY <1>1, <1>2, <1>3, <1>5, LoopMoves DEF LoopWakes, Live
<1>6. CASE HandlerReturns(k)
  BY <1>1, <1>2, <1>3, <1>6, LoopMoves DEF HandlerReturns, Live
<1>7. CASE HandlerRaises(k)
  <2>1. retries' \in [Objects -> Nat]
    BY <1>1, <1>7 DEF HandlerRaises
  <2>2. PICK s \in {"failed", "scheduled"} : status' = [status EXCEPT ![o] = s]
    BY <1>7 DEF HandlerRaises
  <2> QED
    BY <1>2, <1>3, <1>7, <2>1, <2>2, LoopMoves DEF HandlerRaises, Live
<1>8. CASE LoopContinues(k)
  BY <1>1, <1>2, <1>3, <1>8, LoopMoves DEF LoopContinues, Live
<1>9. CASE LoopCancelled(k)
  BY <1>1, <1>2, <1>3, <1>9, LoopMoves DEF LoopCancelled
<1> QED
  BY <1>4, <1>5, <1>6, <1>7, <1>8, <1>9 DEF LoopStep

----------------------------------------------------------------------------
\* Steps that leave the jobs and their loops alone.
LEMMA JobsStay ==
  ASSUME IInv, UNCHANGED <<oneShot, current, status, saving, loops, handle, early>>,
         persisted' \subseteq persisted \union saving, TypeOK'
  PROVE  IInv'
  BY DEF IInv, SavingIsNew, OnlyScheduled, HaltedIsQuiet, NoOrphanLoops, Status, Repeats, Live

\* start(), new handlers and completed writes keep it.
LEMMA StartKeeps ==
  ASSUME IInv, Start \/ (\E j \in Jobs : RegisterHandler(j) \/ SaveWritten(j)) \/ UNCHANGED vars
  PROVE  IInv'
<1>1. CASE Start
  <2>1. TypeOK'
    BY <1>1, JobsAssumption DEF IInv, Start, TypeOK, Gens
  <2> QED
    BY <1>1, <2>1, JobsStay DEF Start
<1>2. ASSUME NEW j \in Jobs, RegisterHandler(j)
      PROVE  IInv'
  <2>1. TypeOK'
    BY <1>2 DEF IInv, RegisterHandler, TypeOK
  <2> QED
    BY <1>2, <2>1, JobsStay DEF RegisterHandler
<1>3. ASSUME NEW j \in Jobs, SaveWritten(j)
      PROVE  IInv'
  <2>1. TypeOK'
    BY <1>3 DEF IInv, SaveWritten, TypeOK
  <2> QED
    BY <1>3, <2>1, JobsStay DEF SaveWritten
<1>4. CASE UNCHANGED vars
  <2>1. TypeOK'
    BY <1>4 DEF IInv, vars, TypeOK
  <2> QED
    BY <1>4, <2>1, JobsStay DEF vars
<1> QED
  BY <1>1, <1>2, <1>3, <1>4

\* The jobs read from disk are PENDING.
LEMMA StartLoadsKeeps ==
  ASSUME IInv, NEW g \in Gens, StartLoads(g)
  PROVE  IInv'
<1>1. /\ current' = [j \in Jobs |-> IF j \in persisted THEN g ELSE current[j]]
      /\ status' = [o \in Objects |-> IF o[1] \in persisted /\ o[2] = g
                                      THEN "pending" ELSE status[o]]
      /\ UNCHANGED <<oneShot, saving, persisted, loops, handle, early>>
  BY DEF StartLoads
<1>2. TypeOK'
  BY <1>1 DEF StartLoads, IInv, TypeOK, JobStatus
<1>3. \A j \in Jobs : current[j] # None => <<j, current[j]>> \in Objects
  BY DEF IInv, TypeOK, Objects
<1>4. \A j \in Jobs : <<j, g>> \in Objects /\ <<j, 0>> \in Objects
  BY JobsAssumption DEF Objects, Gens
<1>5. ASSUME NEW j \in Jobs
      PROVE  IF j \in persisted THEN Status(j)' = "pending"
             ELSE Status(j)' = Status(j) /\ Repeats(j)' = Repeats(j)
  <2>1. CASE j \in persisted
    <3>1. current'[j] = g /\ g # None
      BY <1>1, <2>1 DEF None, Gens
    <3>2. status'[<<j, g>>] = "pending"
      BY <1>1, <1>4, <2>1
    <3> QED
      BY <2>1, <3>1, <3>2 DEF Status
  <2>2. CASE j \notin persisted
    <3>1. current'[j] = current[j]
      BY <1>1, <2>2
    <3>2. current[j] # None => status'[<<j, current[j]>>] = status[<<j, current[j]>>]
      BY <1>1, <1>3, <2>2
    <3> QED
      BY <1>1, <2>2, <3>1, <3>2 DEF Status, Repeats
  <2> QED
    BY <2>1, <2>2
<1>6. \A j \in Jobs : status'[<<j, 0>>] = "absent" => status[<<j, 0>>] = "absent" /\ j \notin persisted
  BY <1>1, <1>4 DEF IInv, OnlyScheduled
<1>7. OnlyScheduled'
  BY <1>1, <1>6 DEF IInv, OnlyScheduled
<1>8. SavingIsNew'
  BY <1>1, <1>5 DEF IInv, TypeOK, SavingIsNew
<1>9. HaltedIsQuiet'
  BY <1>1, <1>5 DEF IInv, HaltedIsQuiet, Live
<1>10. NoOrphanLoops'
  BY <1>1 DEF IInv, NoOrphanLoops, Live
<1> QED
  BY <1>2, <1>7, <1>8, <1>9, <1>10 DEF IInv

\* stop() asks every loop in _tasks to end, which are all the live ones.
LEMMA StopKeeps ==
  ASSUME IInv, Stop
  PROVE  IInv'
<1>1. /\ handle' = [j \in Jobs |-> None]
      /\ UNCHANGED <<oneShot, starts, loading, current, status, retries, handlers, saving,
                     persisted, early>>
      /\ started' = FALSE
  BY DEF Stop
<1>2. /\ Len(loops) \in Nat /\ DOMAIN loops = 1..Len(loops)
      /\ \A k \in DOMAIN loops : loops[k] \in LoopRecord /\ loops[k].obj[1] \in Jobs
  BY LoopsKnown DEF IInv
<1> DEFINE r(k) == IF \E j \in Jobs : handle[j] = k THEN Cancelling(loops, k)[k] ELSE loops[k]
<1>3. loops' = [k \in DOMAIN loops |-> r(k)]
  BY DEF Stop
<1>4. \A k \in DOMAIN loops :
        /\ r(k) \in LoopRecord /\ r(k).obj = loops[k].obj /\ r(k).pc = loops[k].pc
        /\ r(k).cancelled = (loops[k].cancelled \/ (r(k).pc # "done" /\ \E j \in Jobs : handle[j] = k))
  <2> SUFFICES ASSUME NEW k \in DOMAIN loops
               PROVE  /\ r(k) \in LoopRecord /\ r(k).obj = loops[k].obj /\ r(k).pc = loops[k].pc
                      /\ r(k).cancelled = (loops[k].cancelled
                                            \/ (r(k).pc # "done" /\ \E j \in Jobs : handle[j] = k))
    OBVIOUS
  <2>1. CASE (\E j \in Jobs : handle[j] = k) /\ loops[k].pc # "done"
    <3>1. r(k) = [loops[k] EXCEPT !.cancelled = TRUE]
      BY <1>2, <2>1 DEF Cancelling
    <3> QED
      BY <1>2, <2>1, <3>1 DEF LoopRecord
  <2>2. CASE ~((\E j \in Jobs : handle[j] = k) /\ loops[k].pc # "done")
    <3>1. r(k) = loops[k]
      BY <2>2 DEF Cancelling
    <3>2. loops[k].cancelled \in BOOLEAN
      BY <1>2 DEF LoopRecord
    <3> QED
      BY <1>2, <2>2, <3>1, <3>2
  <2> QED
    BY <2>1, <2>2
<1> HIDE DEF r
<1>5. loops' \in Seq(LoopRecord) /\ Len(loops') = Len(loops)
  BY <1>2, <1>3, <1>4
<1>6. DOMAIN loops' = DOMAIN loops
  BY <1>3
<1>7. \A k \in DOMAIN loops : loops'[k].obj = loops[k].obj /\ (Live(k)' => Live(k))
  BY <1>3, <1>4 DEF Live
<1>8. \A k \in DOMAIN loops : Live(k)' => loops[k].obj[1] \in early
  BY <1>2, <1>3, <1>4, <1>7 DEF Live, IInv, NoOrphanLoops
<1>9. TypeOK'
  BY <1>1, <1>5 DEF IInv, TypeOK
<1>10. NoOrphanLoops'
  BY <1>1, <1>6, <1>7, <1>8 DEF NoOrphanLoops
<1>11. OnlyScheduled' /\ SavingIsNew' /\ HaltedIsQuiet'
  BY <1>1, <1>6, <1>7 DEF IInv, OnlyScheduled, SavingIsNew, HaltedIsQuiet, Status, Repeats
<1> QED
  BY <1>9, <1>10, <1>11 DEF IInv

\* A crash leaves no loops behind; what was written stays.
LEMMA CrashKeeps ==
  ASSUME IInv, Crash
  PROVE  IInv'
<1>1. /\ started' = FALSE /\ loading' = {} /\ handlers' = {} /\ saving' = {}
      /\ current' = [j \in Jobs |-> None] /\ handle' = [j \in Jobs |-> None]
      /\ loops' = [k \in DOMAIN loops |-> Loop(loops[k].obj, "done", FALSE)]
      /\ UNCHANGED <<oneShot, starts, status, retries, persisted, early>>
  BY DEF Crash
<1>2. /\ Len(loops) \in Nat /\ DOMAIN loops = 1..Len(loops)
      /\ \A k \in DOMAIN loops : loops[k].obj \in Objects
  BY LoopsKnown DEF IInv
<1> DEFINE r(k) == Loop(loops[k].obj, "done", FALSE)
<1>3. \A k \in DOMAIN loops : r(k) \in LoopRecord /\ r(k).obj = loops[k].obj /\ r(k).pc = "done"
  BY <1>2 DEF Loop, LoopRecord, LoopState
<1>4. loops' = [k \in DOMAIN loops |-> r(k)]
  BY <1>1
<1> HIDE DEF r
<1>5. loops' \in Seq(LoopRecord) /\ Len(loops') = Len(loops) /\ DOMAIN loops' = DOMAIN loops
  BY <1>2, <1>3, <1>4
<1>6. \A k \in DOMAIN loops : loops'[k].obj = loops[k].obj /\ ~Live(k)'
  BY <1>3, <1>4 DEF Live
<1>7. TypeOK'
  BY <1>1, <1>5 DEF IInv, TypeOK
<1>8. NoOrphanLoops' /\ SavingIsNew' /\ HaltedIsQuiet'
  BY <1>1, <1>5, <1>6 DEF NoOrphanLoops, SavingIsNew, HaltedIsQuiet
<1>9. OnlyScheduled'
  BY <1>1, <1>5, <1>6 DEF IInv, OnlyScheduled
<1> QED
  BY <1>7, <1>8, <1>9 DEF IInv

----------------------------------------------------------------------------
\* schedule() up to the await of save_job: a job that had no loop.
LEMMA ScheduleKeeps ==
  ASSUME IInv, NEW j \in Jobs, Schedule(j)
  PROVE  IInv'
<1>1. /\ status[<<j, 0>>] = "absent"
      /\ status' = [status EXCEPT ![<<j, 0>>] = "scheduled"]
      /\ current' = [current EXCEPT ![j] = 0]
      /\ saving' = saving \union {j}
      /\ UNCHANGED <<started, starts, loading, retries, handlers, persisted, loops, handle, early>>
  BY DEF Schedule
<1>2. /\ <<j, 0>> \in Objects /\ 0 \in Gens
      /\ current \in [Jobs -> Gens \union {None}]
      /\ status \in [Objects -> JobStatus \union {"absent"}]
  BY JobsAssumption DEF IInv, TypeOK, Objects, Gens
<1>3. /\ current'[j] = 0 /\ status'[<<j, 0>>] = "scheduled"
      /\ \A i \in Jobs \ {j} : current'[i] = current[i]
      /\ \A o \in Objects : o # <<j, 0>> => status'[o] = status[o]
  BY <1>1, <1>2
<1>4. oneShot' \subseteq Objects /\ oneShot \subseteq oneShot' /\ oneShot' \subseteq oneShot \union {<<j, 0>>}
  BY <1>2 DEF Schedule, IInv, TypeOK
<1>5. TypeOK'
  <2>1. status' \in [Objects -> JobStatus \union {"absent"}] /\ current' \in [Jobs -> Gens \union {None}]
    BY <1>1, <1>2 DEF JobStatus
  <2> QED
    BY <1>1, <1>4, <2>1 DEF IInv, TypeOK
<1>6. \A k \in DOMAIN loops : loops[k].obj[1] # j
  BY <1>1 DEF IInv, OnlyScheduled
<1>7. ASSUME NEW i \in Jobs, i # j
      PROVE  Status(i)' = Status(i) /\ Repeats(i)' = Repeats(i)
  <2>1. current[i] # None => <<i, current[i]>> \in Objects /\ <<i, current[i]>> # <<j, 0>>
    BY <1>2, <1>7 DEF Objects
  <2> QED
    BY <1>3, <1>4, <1>7, <2>1 DEF Status, Repeats
<1>8. Status(j)' = "scheduled"
  BY <1>3 DEF Status, None
<1>9. OnlyScheduled'
  <2> SUFFICES ASSUME NEW i \in Jobs, status'[<<i, 0>>] = "absent"
               PROVE  /\ i \notin saving' \union persisted' /\ current'[i] = None
                      /\ \A k \in DOMAIN loops' : loops'[k].obj[1] # i
    BY DEF OnlyScheduled
  <2>1. i # j /\ <<i, 0>> \in Objects /\ <<i, 0>> # <<j, 0>>
    BY <1>2, <1>3 DEF Objects
  <2>2. status[<<i, 0>>] = "absent"
    BY <1>3, <2>1
  <2> QED
    BY <1>1, <1>3, <2>1, <2>2 DEF IInv, OnlyScheduled
<1>10. SavingIsNew'
  BY <1>1, <1>6, <1>7, <1>8 DEF IInv, TypeOK, SavingIsNew
<1>11. HaltedIsQuiet'
  BY <1>1, <1>7, <1>8 DEF IInv, HaltedIsQuiet, Live
<1>12. NoOrphanLoops'
  BY <1>1 DEF IInv, NoOrphanLoops, Live
<1> QED
  BY <1>5, <1>9, <1>10, <1>11, <1>12 DEF IInv

\* A loop is created for a job that has no live one; it is the one in _tasks.
LEMMA ScheduleJobKeeps ==
  ASSUME IInv, NEW j \in Jobs, NEW o \in Objects, o[1] = j, ScheduleJob(o),
         j \notin early' => \A k \in DOMAIN loops : Live(k) => loops[k].obj[1] # j,
         status[<<j, 0>>] # "absent", j \notin saving' \ early',
         j \notin early' => Status(j)' \notin {"cancelled", "paused"},
         UNCHANGED <<oneShot, started, starts, loading, current, retries, handlers, persisted>>,
         saving' \subseteq saving, early \subseteq early', early' \subseteq early \union {j},
         status' \in [Objects -> JobStatus \union {"absent"}],
         \A x \in Objects : status'[x] = "absent" => status[x] = "absent",
         \A i \in Jobs \ {j} : Status(i)' = Status(i)
  PROVE  IInv'
<1> DEFINE r == Loop(o, "new", FALSE)
           n == Len(loops) + 1
<1>1. r \in LoopRecord /\ r.obj = o
  BY DEF Loop, LoopRecord, LoopState
<1>2. loops' = Append(loops, r) /\ handle' = [handle EXCEPT ![j] = n]
  BY DEF ScheduleJob
<1> HIDE DEF r
<1>3. /\ loops \in Seq(LoopRecord) /\ Len(loops) \in Nat /\ DOMAIN loops = 1..Len(loops)
      /\ handle \in [Jobs -> (1..Len(loops)) \union {None}]
  BY LoopsKnown DEF IInv, TypeOK
<1>4. /\ loops' \in Seq(LoopRecord) /\ Len(loops') = n /\ DOMAIN loops' = DOMAIN loops \union {n}
      /\ loops'[n] = r /\ \A k \in DOMAIN loops : loops'[k] = loops[k]
  BY <1>1, <1>2, <1>3
<1>5. handle' \in [Jobs -> (1..Len(loops')) \union {None}]
  BY <1>2, <1>3, <1>4
<1>6. TypeOK'
  BY <1>4, <1>5 DEF IInv, TypeOK
<1>7. \A k \in DOMAIN loops : Live(k)' = Live(k)
  BY <1>4 DEF Live
<1>8. handle'[j] = n /\ \A i \in Jobs \ {j} : handle'[i] = handle[i]
  BY <1>2, <1>3
<1>9. NoOrphanLoops'
  <2> SUFFICES ASSUME NEW k \in DOMAIN loops', Live(k)', loops'[k].obj[1] \notin early'
               PROVE  handle'[loops'[k].obj[1]] = k
    BY DEF NoOrphanLoops
  <2>1. CASE k = n
    BY <1>1, <1>4, <1>8, <2>1
  <2>2. CASE k \in DOMAIN loops
    <3>1. Live(k) /\ loops[k].obj[1] \in Jobs /\ loops'[k] = loops[k]
      BY <1>4, <1>7, <2>2, LoopsKnown DEF IInv
    <3>2. loops[k].obj[1] # j /\ handle[loops[k].obj[1]] = k
      BY <2>2, <3>1 DEF IInv, NoOrphanLoops
    <3> QED
      BY <1>8, <3>1, <3>2
  <2> QED
    BY <1>4, <2>1, <2>2
<1>10. OnlyScheduled'
  <2> SUFFICES ASSUME NEW i \in Jobs, status'[<<i, 0>>] = "absent"
               PROVE  /\ i \notin saving' \union persisted' /\ current'[i] = None
                      /\ \A k \in DOMAIN loops' : loops'[k].obj[1] # i
    BY DEF OnlyScheduled
  <2>1. <<i, 0>> \in Objects
    BY JobsAssumption DEF Objects, Gens
  <2>2. status[<<i, 0>>] = "absent" /\ i # j
    BY <2>1
  <2> QED
    BY <1>1, <1>4, <2>2 DEF IInv, OnlyScheduled
<1>11. SavingIsNew'
  <2> SUFFICES ASSUME NEW i \in saving' \ early'
               PROVE  /\ \A k \in DOMAIN loops' : loops'[k].obj[1] # i
                      /\ Status(i)' \notin {"cancelled", "paused"}
    BY DEF SavingIsNew
  <2>1. i \in saving \ early /\ i # j /\ i \in Jobs
    BY DEF IInv, TypeOK
  <2> QED
    BY <1>1, <1>4, <2>1 DEF IInv, SavingIsNew
<1>12. HaltedIsQuiet'
  <2> SUFFICES ASSUME NEW i \in Jobs \ early',
                      Status(i)' = "paused" \/ (Repeats(i)' /\ Status(i)' = "cancelled"),
                      NEW k \in DOMAIN loops', Live(k)'
               PROVE  loops'[k].obj[1] # i
    BY DEF HaltedIsQuiet
  <2>1. i # j /\ i \notin early /\ Status(i)' = Status(i) /\ Repeats(i)' = Repeats(i)
    BY DEF Repeats
  <2>2. CASE k = n
    BY <1>1, <1>4, <2>1, <2>2
  <2>3. CASE k \in DOMAIN loops
    BY <1>4, <1>7, <2>1, <2>3 DEF IInv, HaltedIsQuiet
  <2> QED
    BY <1>4, <2>2, <2>3
<1> QED
  BY <1>6, <1>9, <1>10, <1>11, <1>12 DEF IInv

\* schedule() starts the one loop of its job object after the save.
LEMMA ScheduleReturnsKeeps ==
  ASSUME IInv, NEW j \in Jobs, ScheduleReturns(j)
  PROVE  IInv'
<1> DEFINE o == <<j, 0>>
<1>1. o \in Objects /\ o[1] = j
  BY JobsAssumption DEF Objects, Gens
<1>2. /\ j \in saving /\ saving' = saving \ {j} /\ ScheduleJob(o)
      /\ UNCHANGED <<oneShot, started, starts, loading, current, status, retries, handlers,
                     persisted, early>>
  BY DEF ScheduleReturns
<1>3. status[o] # "absent"
  BY <1>2 DEF IInv, OnlyScheduled
<1>4. j \notin early => /\ \A k \in DOMAIN loops : Live(k) => loops[k].obj[1] # j
                       /\ Status(j) \notin {"cancelled", "paused"}
  BY <1>2 DEF IInv, SavingIsNew
<1>5. \A i \in Jobs : Status(i)' = Status(i)
  BY <1>2 DEF Status
<1>6. status' \in [Objects -> JobStatus \union {"absent"}]
  BY <1>2 DEF IInv, TypeOK
<1> QED
  BY <1>1, <1>2, <1>3, <1>4, <1>5, <1>6, ScheduleJobKeeps

\* A client sets the status of the object in _jobs.
LEMMA Relabelled ==
  ASSUME IInv, NEW j \in Jobs, NEW s \in JobStatus, Addressed(j),
         status' = [status EXCEPT ![<<j, current[j]>>] = s], UNCHANGED <<current, oneShot>>
  PROVE  /\ <<j, current[j]>> \in Objects
         /\ status' \in [Objects -> JobStatus \union {"absent"}]
         /\ Status(j)' = s
         /\ \A x \in Objects : status'[x] = "absent" => status[x] = "absent"
         /\ \A i \in Jobs \ {j} : Status(i)' = Status(i) /\ Repeats(i)' = Repeats(i)
         /\ status[<<j, 0>>] # "absent"
         /\ early \subseteq early' /\ early' \subseteq early \union {j} /\ early' \subseteq Jobs
         /\ j \notin early' => j \notin saving /\ j \notin early
<1> DEFINE o == <<j, current[j]>>
<1>1. current[j] # None /\ o \in Objects
  BY DEF Addressed, IInv, TypeOK, Objects
<1>2. status \in [Objects -> JobStatus \union {"absent"}] /\ early \subseteq Jobs
  BY DEF IInv, TypeOK
<1>3. /\ status' \in [Objects -> JobStatus \union {"absent"}]
      /\ status'[o] = s /\ \A x \in Objects : x # o => status'[x] = status[x]
  BY <1>1, <1>2
<1>4. s # "absent"
  BY DEF JobStatus
<1>5. ASSUME NEW i \in Jobs \ {j}
      PROVE  Status(i)' = Status(i) /\ Repeats(i)' = Repeats(i)
  <2>1. current[i] # None => <<i, current[i]>> \in Objects /\ <<i, current[i]>> # o
    BY DEF IInv, TypeOK, Objects
  <2> QED
    BY <1>3, <2>1 DEF Status, Repeats
<1>6. status[<<j, 0>>] # "absent"
  BY <1>1 DEF IInv, OnlyScheduled
<1>7. /\ early \subseteq early' /\ early' \subseteq early \union {j} /\ early' \subseteq Jobs
      /\ j \notin early' => j \notin saving /\ j \notin early
  BY <1>2 DEF Addressed
<1>8. Status(j)' = s
  BY <1>1, <1>3 DEF Status
<1>9. \A x \in Objects : status'[x] = "absent" => status[x] = "absent"
  BY <1>3, <1>4
<1> QED
  BY <1>1, <1>3, <1>5, <1>6, <1>7, <1>8, <1>9

\* resume() starts a loop only for a job object without one.
LEMMA ResumeKeeps ==
  ASSUME IInv, NEW j \in Jobs, Resume(j)
  PROVE  IInv'
<1> DEFINE o == <<j, current[j]>>
<1>1. /\ Addressed(j) /\ Status(j) = "paused" /\ ScheduleJob(o)
      /\ status' = [status EXCEPT ![o] = "scheduled"]
      /\ UNCHANGED <<oneShot, started, starts, loading, current, retries, handlers, saving,
                     persisted>>
  BY DEF Resume
<1>2. "scheduled" \in JobStatus /\ o[1] = j
  BY DEF JobStatus
<1>3. /\ o \in Objects /\ status' \in [Objects -> JobStatus \union {"absent"}]
      /\ Status(j)' = "scheduled"
      /\ \A x \in Objects : status'[x] = "absent" => status[x] = "absent"
      /\ \A i \in Jobs \ {j} : Status(i)' = Status(i)
      /\ status[<<j, 0>>] # "absent"
      /\ early \subseteq early' /\ early' \subseteq early \union {j}
      /\ j \notin early' => j \notin saving /\ j \notin early
  BY <1>1, <1>2, Relabelled
<1>4. j \notin early' => \A k \in DOMAIN loops : Live(k) => loops[k].obj[1] # j
  BY <1>1, <1>3 DEF IInv, HaltedIsQuiet
<1> QED
  BY <1>1, <1>2, <1>3, <1>4, ScheduleJobKeeps

\* cancel and pause reach the only live loop of the job.
LEMMA HaltKeeps ==
  ASSUME IInv, NEW j \in Jobs, NEW s \in JobStatus, Halt(j, s)
  PROVE  IInv'
<1>1. /\ Addressed(j)
      /\ status' = [status EXCEPT ![<<j, current[j]>>] = s]
      /\ loops' = IF handle[j] = None THEN loops ELSE Cancelling(loops, handle[j])
      /\ handle' = [handle EXCEPT ![j] = None]
      /\ UNCHANGED <<oneShot, started, starts, loading, current, retries, handlers, saving,
                     persisted>>
  BY DEF Halt
<1>2. /\ status' \in [Objects -> JobStatus \union {"absent"}]
      /\ \A x \in Objects : status'[x] = "absent" => status[x] = "absent"
      /\ \A i \in Jobs \ {j} : Status(i)' = Status(i) /\ Repeats(i)' = Repeats(i)
      /\ early \subseteq early' /\ early' \subseteq early \union {j} /\ early' \subseteq Jobs
      /\ j \notin early' => j \notin saving /\ j \notin early
  BY <1>1, Relabelled
<1>3. /\ loops \in Seq(LoopRecord) /\ Len(loops) \in Nat /\ DOMAIN loops = 1..Len(loops)
      /\ handle \in [Jobs -> (1..Len(loops)) \union {None}]
      /\ \A k \in DOMAIN loops : loops[k] \in LoopRecord
  BY LoopsKnown DEF IInv, TypeOK
<1>4. /\ loops' \in Seq(LoopRecord) /\ Len(loops') = Len(loops) /\ DOMAIN loops' = DOMAIN loops
      /\ \A k \in DOMAIN loops : loops'[k].obj = loops[k].obj /\ (Live(k)' => Live(k) /\ k # handle[j])
  <2>1. CASE handle[j] = None
    <3>1. \A k \in DOMAIN loops : k # handle[j]
      BY <1>3, <2>1 DEF None
    <3> QED
      BY <1>1, <1>3, <2>1, <3>1 DEF Live
  <2>2. CASE handle[j] # None /\ loops[handle[j]].pc = "done"
    BY <1>1, <1>3, <2>2 DEF Live, Cancelling
  <2>3. CASE handle[j] # None /\ loops[handle[j]].pc # "done"
    <3> DEFINE h == handle[j]
               r == [loops[h] EXCEPT !.cancelled = TRUE]
    <3>1. h \in DOMAIN loops /\ loops' = [loops EXCEPT ![h] = r]
      BY <1>1, <1>3, <2>3 DEF Cancelling
    <3>2. r \in LoopRecord /\ r.obj = loops[h].obj /\ r.cancelled = TRUE
      BY <1>3, <3>1 DEF LoopRecord
    <3> HIDE DEF r
    <3> QED
      BY <1>3, <3>1, <3>2 DEF Live
  <2> QED
    BY <2>1, <2>2, <2>3
<1>5. handle' \in [Jobs -> (1..Len(loops')) \union {None}]
      /\ \A i \in Jobs \ {j} : handle'[i] = handle[i]
  BY <1>1, <1>3, <1>4
<1>6. TypeOK'
  BY <1>1, <1>2, <1>4, <1>5 DEF IInv, TypeOK
<1>7. j \notin early' => \A k \in DOMAIN loops : Live(k)' => loops[k].obj[1] # j
  BY <1>2, <1>4 DEF IInv, NoOrphanLoops
<1>8. NoOrphanLoops'
  <2> SUFFICES ASSUME NEW k \in DOMAIN loops', Live(k)', loops'[k].obj[1] \notin early'
               PROVE  handle'[loops'[k].obj[1]] = k
    BY DEF NoOrphanLoops
  <2>1. /\ loops[k].obj[1] \in Jobs /\ loops'[k].obj = loops[k].obj /\ Live(k)
        /\ loops[k].obj[1] # j /\ k \in DOMAIN loops
    BY <1>4, <1>7, LoopsKnown DEF IInv
  <2>2. handle[loops[k].obj[1]] = k
    BY <1>2, <2>1 DEF IInv, NoOrphanLoops
  <2> QED
    BY <1>5, <2>1, <2>2
<1>9. OnlyScheduled'
  <2>1. \A i \in Jobs : <<i, 0>> \in Objects
    BY JobsAssumption DEF Objects, Gens
  <2> QED
    BY <1>1, <1>2, <1>4, <2>1 DEF IInv, OnlyScheduled
<1>10. SavingIsNew'
  <2> SUFFICES ASSUME NEW i \in saving' \ early'
               PROVE  /\ \A k \in DOMAIN loops' : loops'[k].obj[1] # i
                      /\ Status(i)' \notin {"cancelled", "paused"}
    BY DEF SavingIsNew
  <2>1. i \in saving \ early /\ i # j /\ i \in Jobs
    BY <1>1, <1>2 DEF IInv, TypeOK
  <2> QED
    BY <1>2, <1>4, <2>1 DEF IInv, SavingIsNew
<1>11. HaltedIsQuiet'
  <2> SUFFICES ASSUME NEW i \in Jobs \ early',
                      Status(i)' = "paused" \/ (Repeats(i)' /\ Status(i)' = "cancelled"),
                      NEW k \in DOMAIN loops', Live(k)'
               PROVE  loops'[k].obj[1] # i
    BY DEF HaltedIsQuiet
  <2>1. CASE i = j
    BY <1>4, <1>7, <2>1
  <2>2. CASE i # j
    BY <1>2, <1>4, <2>2 DEF IInv, HaltedIsQuiet
  <2> QED
    BY <2>1, <2>2
<1> QED
  BY <1>6, <1>8, <1>9, <1>10, <1>11 DEF IInv

----------------------------------------------------------------------------
\* A scheduler without jobs satisfies the invariant.
LEMMA Initially == Init => IInv
<1> SUFFICES ASSUME Init PROVE IInv
  OBVIOUS
<1>1. 0 \in Gens
  BY JobsAssumption DEF Gens
<1>2. TypeOK
  <2>1. /\ current \in [Jobs -> Gens \union {None}] /\ retries \in [Objects -> Nat]
        /\ status \in [Objects -> JobStatus \union {"absent"}]
    BY DEF Init
  <2>2. loops \in Seq(LoopRecord) /\ handle \in [Jobs -> (1..Len(loops)) \union {None}]
    BY DEF Init
  <2> QED
    BY <1>1, <2>1, <2>2 DEF Init, TypeOK
<1>3. SavingIsNew /\ OnlyScheduled /\ HaltedIsQuiet /\ NoOrphanLoops
  BY DEF Init, SavingIsNew, OnlyScheduled, HaltedIsQuiet, NoOrphanLoops
<1> QED
  BY <1>2, <1>3 DEF IInv

\* Every step of the scheduler keeps it.
LEMMA Inductive == IInv /\ [Next]_vars => IInv'
<1> SUFFICES ASSUME IInv, [Next]_vars PROVE IInv'
  OBVIOUS
<1>1. {"cancelled", "paused"} \subseteq JobStatus
  BY DEF JobStatus
<1>2. ASSUME NEW j \in Jobs, Cancel(j) \/ Pause(j)
      PROVE  IInv'
  BY <1>1, <1>2, HaltKeeps DEF Cancel, Pause
<1> QED
  BY <1>2, StartKeeps, StopKeeps, CrashKeeps, StartLoadsKeeps, ScheduleKeeps,
     ScheduleReturnsKeeps, ResumeKeeps, LoopStepKeeps DEF Next

\* Whatever the order of schedules, saves, pauses, resumes, cancellations, stops,
\* restarts and crashes, a live loop is the one in _tasks, so the next cancel,
\* pause or stop reaches it (_schedule_job, cancel, pause, stop).
THEOREM LoopsAreReached == Spec => []NoOrphanLoops
<1>1. IInv => NoOrphanLoops
  BY DEF IInv
<1> QED
  BY Initially, Inductive, <1>1, PTL DEF Spec

\* A cancelled or paused interval job has no live loop left, and gets none before
\* it is resumed.
THEOREM StoppedStaysQuiet == Spec => []StoppedIsQuiet
<1>1. IInv => StoppedIsQuiet
  BY DEF IInv, HaltedIsQuiet, StoppedIsQuiet
<1> QED
  BY Initially, Inductive, <1>1, PTL DEF Spec
=============================================================================
