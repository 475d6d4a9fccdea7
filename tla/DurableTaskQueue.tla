-------------------------- MODULE DurableTaskQueue --------------------------
(***************************************************************************)
(* DurableTaskQueue (core/persistent/scheduler_queue.py) with the workers  *)
(* that use it.  One named queue; a task is its id.                        *)
(*                                                                         *)
(* Every operation changes memory first and then awaits                    *)
(* PersistenceLayer.save_queue_task, which runs in a thread: other         *)
(* operations may run while check_timeouts is between two tasks.           *)
(***************************************************************************)
EXTENDS Integers, FiniteSets

CONSTANTS
  Ids,             \* tasks that get enqueued
  Workers,         \* clients that lease, ack and nack
  Priority,        \* Priority[id], 1 is the highest
  MaxAttempts,     \* QueueTask.max_attempts
  MaxLeases        \* bound: leases of one task

None == "none"   \* the empty lease_owner

ASSUME QueueAssumption == /\ IsFiniteSet(Ids)
                          /\ Priority \in [Ids -> Nat]
                          /\ MaxAttempts \in Nat \ {0}
                          /\ MaxLeases \in Nat
                          /\ None \notin Workers

VARIABLES
  status,    \* QueueTask.status, "absent" before enqueue, "forgotten" after a restart
  attempts,  \* QueueTask.attempts
  born,      \* QueueTask.created_at, as a rank
  queue,     \* queue[id]: how often the task is in _queues (a list, sorted on lease)
  leased,    \* the keys of _leased
  dead,      \* dead[id]: how often the task is in _dead_letter
  owner,     \* QueueTask.lease_owner, or None
  lapsed,    \* leases whose lease_expires lies in the past
  held,      \* held[w]: the tasks worker w works on
  sweep,     \* check_timeouts: the expired leases it has found, and the ones requeued
  orderly    \* history: no worker replied late, no sweep was overtaken, no restart

vars == <<status, attempts, born, queue, leased, dead, owner, lapsed, held, sweep, orderly>>

Statuses == {"queued", "leased", "completed", "dead_letter", "timed_out"}
Idle == [active |-> FALSE, todo |-> {}, requeued |-> {}]

TypeOK ==
  /\ status \in [Ids -> Statuses \union {"absent", "forgotten"}]
  /\ attempts \in [Ids -> Nat]
  /\ born \in [Ids -> Nat]
  /\ queue \in [Ids -> Nat]
  /\ leased \subseteq Ids
  /\ dead \in [Ids -> Nat]
  /\ owner \in [Ids -> Workers \union {None}]
  /\ lapsed \subseteq Ids
  /\ held \in [Workers -> SUBSET Ids]
  /\ sweep \in [active : BOOLEAN, todo : SUBSET Ids, requeued : SUBSET Ids]
  /\ orderly \in BOOLEAN

Init ==
  /\ status = [id \in Ids |-> "absent"]
  /\ attempts = [id \in Ids |-> 0]
  /\ born = [id \in Ids |-> 0]
  /\ queue = [id \in Ids |-> 0]
  /\ leased = {}
  /\ dead = [id \in Ids |-> 0]
  /\ owner = [id \in Ids |-> None]
  /\ lapsed = {}
  /\ held = [w \in Workers |-> {}]
  /\ sweep = Idle
  /\ orderly = TRUE

----------------------------------------------------------------------------
Enqueue(id) ==
  /\ status[id] = "absent"
  /\ status' = [status EXCEPT ![id] = "queued"]
  /\ born' = [born EXCEPT ![id] = 1 + Cardinality({i \in Ids : status[i] # "absent"})]
  /\ queue' = [queue EXCEPT ![id] = @ + 1]
  /\ UNCHANGED <<attempts, leased, dead, owner, lapsed, held, sweep, orderly>>

\* tasks.sort(key=(priority, created_at)); tasks.pop(0)
First(id) ==
  /\ queue[id] > 0
  /\ \A i \in Ids : queue[i] > 0 =>
       \/ Priority[id] < Priority[i]
       \/ Priority[id] = Priority[i] /\ born[id] <= born[i]

\* Mutant: lease looks at the first task and leaves it in the queue.
LeaseKeepsEntry(w, id) ==
  /\ First(id)
  /\ attempts[id] < MaxLeases
  /\ status' = [status EXCEPT ![id] = "leased"]
  /\ attempts' = [attempts EXCEPT ![id] = @ + 1]
  /\ leased' = leased \union {id}
  /\ owner' = [owner EXCEPT ![id] = w]
  /\ lapsed' = lapsed \ {id}
  /\ held' = [held EXCEPT ![w] = @ \union {id}]
  /\ sweep' = [sweep EXCEPT !.todo = @ \ {id}]
  /\ orderly' = (orderly /\ id \notin sweep.requeued)
  /\ UNCHANGED <<born, dead, queue>>

Lease(w, id) ==
  /\ First(id)
  /\ attempts[id] < MaxLeases
  /\ queue' = [queue EXCEPT ![id] = @ - 1]
  /\ status' = [status EXCEPT ![id] = "leased"]
  /\ attempts' = [attempts EXCEPT ![id] = @ + 1]
  /\ leased' = leased \union {id}
  /\ owner' = [owner EXCEPT ![id] = w]
  /\ lapsed' = lapsed \ {id}
  /\ held' = [held EXCEPT ![w] = @ \union {id}]
  /\ orderly' = (orderly /\ id \notin sweep.requeued)
  \* the new lease_expires lies after the "now" of a sweep under way
  /\ sweep' = [sweep EXCEPT !.todo = @ \ {id}]
  /\ UNCHANGED <<born, dead>>

\* Time passes beyond lease_expires.
LeaseExpires(id) ==
  /\ id \in leased \ lapsed
  /\ status[id] = "leased"
  /\ lapsed' = lapsed \union {id}
  /\ UNCHANGED <<status, attempts, born, queue, leased, dead, owner, held, sweep, orderly>>

\* The worker still owns the lease, which has not run out.
InTime(w, id) == owner[id] = w /\ id \in leased /\ id \notin lapsed

\* A worker replies at most once per lease it was given, in time or late.
Replies(w, id) ==
  /\ id \in held[w]
  /\ orderly' = (orderly /\ InTime(w, id))
  /\ held' = [held EXCEPT ![w] = @ \ {id}]

\* ack and nack look in _leased and then in the queue; worker_id is not compared.
Known(id) == id \in leased \/ queue[id] > 0

Ack(w, id) ==
  /\ Replies(w, id)
  /\ leased' = leased \ {id}
  /\ status' = IF Known(id) THEN [status EXCEPT ![id] = "completed"] ELSE status
  /\ UNCHANGED <<attempts, born, queue, dead, owner, lapsed, sweep>>

Nack(w, id) ==
  /\ Replies(w, id)
  /\ leased' = leased \ {id}
  /\ \/ /\ Known(id) /\ attempts[id] >= MaxAttempts
        /\ status' = [status EXCEPT ![id] = "dead_letter"]
        /\ dead' = [dead EXCEPT ![id] = @ + 1]
        /\ UNCHANGED <<queue, owner, lapsed>>
     \/ /\ Known(id) /\ attempts[id] < MaxAttempts
        /\ status' = [status EXCEPT ![id] = "queued"]
        /\ queue' = [queue EXCEPT ![id] = @ + 1]
        /\ owner' = [owner EXCEPT ![id] = None]
        /\ lapsed' = lapsed \ {id}
        /\ UNCHANGED dead
     \/ ~Known(id) /\ UNCHANGED <<status, dead, queue, owner, lapsed>>
  /\ UNCHANGED <<attempts, born, sweep>>

\* The worker goes away without a reply.
WorkerDies(w) ==
  /\ held[w] # {}
  /\ held' = [held EXCEPT ![w] = {}]
  /\ UNCHANGED <<status, attempts, born, queue, leased, dead, owner, lapsed, sweep, orderly>>

----------------------------------------------------------------------------
(***************************************************************************)
(* check_timeouts: requeue what has expired, one save at a time; forget    *)
(* the leases at the end.                                                  *)
(***************************************************************************)
SweepBegins ==
  /\ ~sweep.active
  /\ leased \cap lapsed # {}
  /\ sweep' = [active |-> TRUE, todo |-> leased \cap lapsed, requeued |-> {}]
  /\ UNCHANGED <<status, attempts, born, queue, leased, dead, owner, lapsed, held, orderly>>

\* Mutant: the sweep marks an expired task but does not put it back.
SweepDrops(id) ==
  /\ id \in sweep.todo
  /\ status' = [status EXCEPT ![id] = "timed_out"]
  /\ owner' = [owner EXCEPT ![id] = None]
  /\ lapsed' = lapsed \ {id}
  /\ sweep' = [sweep EXCEPT !.todo = @ \ {id}, !.requeued = @ \union {id}]
  /\ UNCHANGED <<attempts, born, queue, leased, dead, held, orderly>>

SweepRequeues(id) ==
  /\ id \in sweep.todo
  /\ \/ /\ status[id] = "leased" /\ id \in lapsed
        /\ status' = [status EXCEPT ![id] = "timed_out"]
        /\ queue' = [queue EXCEPT ![id] = @ + 1]
        /\ owner' = [owner EXCEPT ![id] = None]
        /\ lapsed' = lapsed \ {id}
        /\ sweep' = [sweep EXCEPT !.todo = @ \ {id}, !.requeued = @ \union {id}]
     \/ /\ ~(status[id] = "leased" /\ id \in lapsed)
        /\ sweep' = [sweep EXCEPT !.todo = @ \ {id}]
        /\ UNCHANGED <<status, queue, owner, lapsed>>
  /\ UNCHANGED <<attempts, born, leased, dead, held, orderly>>

SweepEnds ==
  /\ sweep.active
  /\ sweep.todo = {}
  /\ leased' = leased \ sweep.requeued
  /\ sweep' = Idle
  /\ UNCHANGED <<status, attempts, born, queue, dead, owner, lapsed, held, orderly>>

\* The process stops and starts again.  The task files stay on disk, but
\* PersistenceLayer has no operation that reads them back.
Restart ==
  /\ orderly' = FALSE
  /\ status' = [id \in Ids |-> IF status[id] \in {"queued", "leased", "timed_out"}
                               THEN "forgotten" ELSE status[id]]
  /\ queue' = [id \in Ids |-> 0]
  /\ leased' = {}
  /\ owner' = [id \in Ids |-> None]
  /\ lapsed' = {}
  /\ held' = [w \in Workers |-> {}]
  /\ sweep' = Idle
  /\ UNCHANGED <<attempts, born, dead>>

Next ==
  \/ \E id \in Ids : Enqueue(id)
  \/ \E w \in Workers, id \in Ids : Lease(w, id)
  \/ \E id \in Ids : LeaseExpires(id)
  \/ \E w \in Workers, id \in Ids : Ack(w, id)
  \/ \E w \in Workers, id \in Ids : Nack(w, id)
  \/ \E w \in Workers : WorkerDies(w)
  \/ SweepBegins
  \/ \E id \in Ids : SweepRequeues(id)
  \/ SweepEnds
  \/ Restart

Spec == Init /\ [][Next]_vars

----------------------------------------------------------------------------
(***************************************************************************)
(* Properties                                                              *)
(***************************************************************************)
\* Where a task is, read off the containers.  "lost" and "torn" (in two
\* containers at once) are no places of the abstract queue.
PlaceOf(id) ==
  CASE status[id] = "absent"                       -> "absent"
    [] status[id] = "completed"                    -> "done"
    [] queue[id] + dead[id] > 1                    -> "torn"
    [] queue[id] = 1                               -> "waiting"
    [] dead[id] = 1                                -> "dead"
    [] queue[id] + dead[id] = 0 /\ id \in leased   -> "leased"
    [] OTHER                                       -> "lost"

Places == [id \in Ids |-> PlaceOf(id)]

Abstract == INSTANCE LeaseQueue WITH place <- Places

\* The queue keeps the promise of LeaseQueue for as long as it is used in
\* order: no task is lost, duplicated or handed out after its end, across
\* expired leases, dying workers and interleaved sweeps.
KeepsPromise == Abstract!Init /\ [][orderly' => [Abstract!Next]_Places]_vars

\* dead-letter means the attempts are used up: nack buries no task early.
DeadOnlyWhenExhausted == \A id \in Ids : dead[id] > 0 => attempts[id] >= MaxAttempts

\* A task that waits can be leased: whatever late replies, overlapping sweeps
\* and restarts do to the containers, a task whose status says it is queued or
\* timed out is in its queue, so no lease call passes it over for ever.
WaitingIsQueued ==
  \A id \in Ids : status[id] \in {"queued", "timed_out"} => queue[id] > 0

\* A lease stays in _leased until its worker replies or it runs out.
LeasesAreKept == orderly => \A id \in Ids : status[id] = "leased" => id \in leased
=============================================================================
