----------------------- MODULE DurableTaskQueueProofs -----------------------
(***************************************************************************)
(* Proofs about DurableTaskQueue, for any tasks, workers, priorities and   *)
(* attempt limits: the queue implements LeaseQueue for as long as it is    *)
(* used in order, and two weaker properties whatever happens.              *)
(*                                                                         *)
(* The argument: in an orderly history the status of a task decides in     *)
(* which containers the task is (Filed), so the abstract place is a        *)
(* function of the status alone and each action moves one status.          *)
(***************************************************************************)
EXTENDS DurableTaskQueue, FiniteSetTheorems, TLAPS

\* The containers agree with the status of the task.
Filed(id) ==
  CASE status[id] = "absent"      -> queue[id] = 0 /\ dead[id] = 0 /\ id \notin leased
    [] status[id] = "queued"      -> queue[id] = 1 /\ dead[id] = 0 /\ id \notin leased
    [] status[id] = "timed_out"   -> /\ queue[id] = 1 /\ dead[id] = 0 /\ owner[id] = None
                                     /\ id \in leased => id \in sweep.requeued
    [] status[id] = "leased"      -> queue[id] = 0 /\ dead[id] = 0 /\ id \in leased
    [] status[id] = "completed"   -> queue[id] = 0 /\ dead[id] = 0 /\ id \notin leased
    [] status[id] = "dead_letter" -> queue[id] = 0 /\ dead[id] = 1 /\ id \notin leased
    [] OTHER                      -> FALSE

\* What a sweep has noted: expired leases to requeue, and requeued ones.
SweepNoted ==
  /\ ~sweep.active => sweep.todo = {} /\ sweep.requeued = {}
  /\ \A id \in sweep.todo : status[id] = "leased" /\ id \in lapsed
  /\ \A id \in sweep.requeued : status[id] = "timed_out"

\* What holds whatever happens, and what holds in an orderly history.
AdverseInv == TypeOK /\ WaitingIsQueued /\ DeadOnlyWhenExhausted
OrderlyInv == (\A id \in Ids : Filed(id)) /\ SweepNoted
IInv == AdverseInv /\ (orderly => OrderlyInv)

\* Every operation keeps the typing, and what nack and the sweep promise.
LEMMA AdverseInductive == AdverseInv /\ [Next]_vars => AdverseInv'
<1> SUFFICES ASSUME AdverseInv, [Next]_vars PROVE AdverseInv'
  OBVIOUS
<1> USE QueueAssumption
<1> USE DEF AdverseInv, WaitingIsQueued, DeadOnlyWhenExhausted
<1>1. ASSUME NEW i \in Ids, Enqueue(i) PROVE AdverseInv'
  <2>1. Cardinality({j \in Ids : status[j] # "absent"}) \in Nat
    BY FS_Subset, FS_CardinalityType
  <2> QED BY <1>1, <2>1 DEF TypeOK, Enqueue, Statuses
<1>2. ASSUME NEW w \in Workers, NEW i \in Ids, Lease(w, i) PROVE AdverseInv'
  <2>1. TypeOK'
    BY <1>2 DEF TypeOK, Lease, First, Statuses
  <2>2. WaitingIsQueued' /\ DeadOnlyWhenExhausted'
    BY <1>2 DEF TypeOK, Lease, First
  <2> QED BY <2>1, <2>2
<1>3. ASSUME NEW i \in Ids, LeaseExpires(i) PROVE AdverseInv'
  BY <1>3 DEF TypeOK, LeaseExpires
<1>4. ASSUME NEW w \in Workers, NEW i \in Ids, Ack(w, i) PROVE AdverseInv'
  <2>1. TypeOK'
    BY <1>4 DEF TypeOK, Ack, Replies, Statuses
  <2>2. WaitingIsQueued' /\ DeadOnlyWhenExhausted'
    BY <1>4 DEF TypeOK, Ack
  <2> QED BY <2>1, <2>2
<1>5. ASSUME NEW w \in Workers, NEW i \in Ids, Nack(w, i) PROVE AdverseInv'
  <2>1. TypeOK'
    BY <1>5 DEF TypeOK, Nack, Replies, Statuses, None
  <2>2. WaitingIsQueued' /\ DeadOnlyWhenExhausted'
    BY <1>5 DEF TypeOK, Nack
  <2> QED BY <2>1, <2>2
<1>6. ASSUME NEW w \in Workers, WorkerDies(w) PROVE AdverseInv'
  BY <1>6 DEF TypeOK, WorkerDies
<1>7. ASSUME SweepBegins PROVE AdverseInv'
  BY <1>7 DEF TypeOK, SweepBegins
<1>8. ASSUME NEW i \in Ids, SweepRequeues(i) PROVE AdverseInv'
  <2>1. sweep' \in [active : BOOLEAN, todo : SUBSET Ids, requeued : SUBSET Ids]
    <3>1. \/ sweep' = [active |-> sweep.active, todo |-> sweep.todo \ {i},
                       requeued |-> sweep.requeued \union {i}]
          \/ sweep' = [active |-> sweep.active, todo |-> sweep.todo \ {i},
                       requeued |-> sweep.requeued]
      BY <1>8 DEF TypeOK, SweepRequeues
    <3> QED BY <3>1 DEF TypeOK
  <2>2. status' \in [Ids -> Statuses \union {"absent", "forgotten"}]
    BY <1>8 DEF TypeOK, SweepRequeues, Statuses
  <2>3. queue' \in [Ids -> Nat] /\ owner' \in [Ids -> Workers \union {None}]
    BY <1>8 DEF TypeOK, SweepRequeues
  <2>4. TypeOK'
    BY <1>8, <2>1, <2>2, <2>3 DEF TypeOK, SweepRequeues
  <2>5. WaitingIsQueued' /\ DeadOnlyWhenExhausted'
    BY <1>8 DEF TypeOK, SweepRequeues
  <2> QED BY <2>4, <2>5
<1>9. ASSUME SweepEnds PROVE AdverseInv'
  BY <1>9 DEF TypeOK, SweepEnds, Idle
<1>10. ASSUME Restart PROVE AdverseInv'
  BY <1>10 DEF TypeOK, Restart, Statuses, None, Idle
<1>11. CASE UNCHANGED vars
  BY <1>11 DEF TypeOK, vars
<1> QED BY <1>1, <1>2, <1>3, <1>4, <1>5, <1>6, <1>7, <1>8, <1>9, <1>10, <1>11 DEF Next

----------------------------------------------------------------------------
(***************************************************************************)
(* The orderly history                                                     *)
(***************************************************************************)
\* Every operation that leaves the history orderly keeps the containers in
\* agreement with the statuses.
LEMMA OrderlyInductive ==
  ASSUME AdverseInv, OrderlyInv, [Next]_vars, orderly'
  PROVE  OrderlyInv'
<1> USE QueueAssumption
<1> TypeOK
  BY DEF AdverseInv
<1>1. ASSUME NEW i \in Ids, Enqueue(i) PROVE OrderlyInv'
  BY <1>1 DEF OrderlyInv, TypeOK, Enqueue, Filed, SweepNoted
<1>2. ASSUME NEW w \in Workers, NEW i \in Ids, Lease(w, i) PROVE OrderlyInv'
  <2>1. i \notin sweep.requeued
    BY <1>2, Zenon DEF Lease
  <2>2. /\ queue[i] = 1 /\ dead[i] = 0 /\ i \notin sweep.requeued
        /\ i \notin leased /\ status[i] \in {"queued", "timed_out"}
    BY <1>2, <2>1 DEF OrderlyInv, TypeOK, Lease, First, Filed, SweepNoted
  <2>3. sweep' = [active |-> sweep.active, todo |-> sweep.todo \ {i},
                  requeued |-> sweep.requeued]
    BY <1>2 DEF TypeOK, Lease
  <2>4. \A id \in Ids : Filed(id)'
    BY <1>2, <2>2, <2>3 DEF OrderlyInv, TypeOK, Lease, Filed
  <2>5. SweepNoted'
    BY <1>2, <2>2, <2>3 DEF OrderlyInv, TypeOK, Lease, SweepNoted
  <2> QED BY <2>4, <2>5 DEF OrderlyInv
<1>3. ASSUME NEW i \in Ids, LeaseExpires(i) PROVE OrderlyInv'
  BY <1>3 DEF OrderlyInv, TypeOK, LeaseExpires, Filed, SweepNoted
<1>4. ASSUME NEW w \in Workers, NEW i \in Ids, Replies(w, i)
      PROVE  /\ status[i] = "leased" /\ queue[i] = 0 /\ dead[i] = 0 /\ Known(i)
             /\ i \notin sweep.todo /\ i \notin sweep.requeued
  <2>1. InTime(w, i)
    BY <1>4, Zenon DEF Replies
  <2> QED BY <2>1 DEF OrderlyInv, InTime, Filed, SweepNoted, Known
<1>5. ASSUME NEW w \in Workers, NEW i \in Ids, Ack(w, i) PROVE OrderlyInv'
  <2>1. status' = [status EXCEPT ![i] = "completed"]
    BY <1>4, <1>5 DEF Ack
  <2>2. \A id \in Ids : Filed(id)'
    BY <1>4, <1>5, <2>1 DEF OrderlyInv, TypeOK, Ack, Filed
  <2>3. SweepNoted'
    BY <1>4, <1>5, <2>1 DEF OrderlyInv, TypeOK, Ack, SweepNoted
  <2> QED BY <2>2, <2>3 DEF OrderlyInv
<1>6. ASSUME NEW w \in Workers, NEW i \in Ids, Nack(w, i) PROVE OrderlyInv'
  <2>1. Replies(w, i)
    BY <1>6 DEF Nack
  <2>2. \A id \in Ids : Filed(id)'
    BY <1>4, <1>6, <2>1 DEF OrderlyInv, TypeOK, Nack, Filed
  <2>3. SweepNoted'
    BY <1>4, <1>6, <2>1 DEF OrderlyInv, TypeOK, Nack, SweepNoted
  <2> QED BY <2>2, <2>3 DEF OrderlyInv
<1>7. ASSUME NEW w \in Workers, WorkerDies(w) PROVE OrderlyInv'
  BY <1>7 DEF OrderlyInv, WorkerDies, Filed, SweepNoted
<1>8. ASSUME SweepBegins PROVE OrderlyInv'
  <2>1. \A id \in Ids : Filed(id)'
    BY <1>8 DEF OrderlyInv, SweepBegins, Filed, SweepNoted
  <2>2. SweepNoted'
    BY <1>8 DEF OrderlyInv, TypeOK, SweepBegins, Filed, SweepNoted
  <2> QED BY <2>1, <2>2 DEF OrderlyInv
<1>9. ASSUME NEW i \in Ids, SweepRequeues(i) PROVE OrderlyInv'
  <2>1. /\ status[i] = "leased" /\ i \in lapsed /\ sweep.active
        /\ status' = [status EXCEPT ![i] = "timed_out"]
        /\ queue' = [queue EXCEPT ![i] = @ + 1]
        /\ owner' = [owner EXCEPT ![i] = None]
        /\ lapsed' = lapsed \ {i}
        /\ sweep' = [sweep EXCEPT !.todo = @ \ {i}, !.requeued = @ \union {i}]
        /\ UNCHANGED <<leased, dead>>
    BY <1>9 DEF OrderlyInv, TypeOK, SweepRequeues, SweepNoted
  <2>2. \A id \in Ids : Filed(id)'
    BY <2>1 DEF OrderlyInv, TypeOK, Filed
  <2>3. SweepNoted'
    BY <2>1 DEF OrderlyInv, TypeOK, SweepNoted
  <2> QED BY <2>2, <2>3 DEF OrderlyInv
<1>10. ASSUME SweepEnds PROVE OrderlyInv'
  <2>1. \A id \in Ids : Filed(id)'
    BY <1>10 DEF OrderlyInv, TypeOK, SweepEnds, Filed, SweepNoted
  <2>2. SweepNoted'
    BY <1>10 DEF OrderlyInv, SweepEnds, SweepNoted, Idle
  <2> QED BY <2>1, <2>2 DEF OrderlyInv
<1>11. CASE UNCHANGED vars
  BY <1>11 DEF OrderlyInv, vars, Filed, SweepNoted
<1>12. ~Restart
  BY DEF Restart
<1> QED BY <1>1, <1>2, <1>3, <1>5, <1>6, <1>7, <1>8, <1>9, <1>10, <1>11, <1>12 DEF Next

\* A history is orderly only if it was orderly before.
LEMMA OrderlyBefore == ASSUME TypeOK, [Next]_vars, orderly' PROVE orderly
BY DEF Next, vars, TypeOK, Enqueue, Lease, LeaseExpires, Ack, Nack, Replies, WorkerDies,
       SweepBegins, SweepRequeues, SweepEnds, Restart

\* The invariant is inductive.
LEMMA Inductive == IInv /\ [Next]_vars => IInv'
BY AdverseInductive, OrderlyInductive, OrderlyBefore DEF IInv, AdverseInv

\* The initial state satisfies the invariant.
LEMMA Initially == Init => IInv
<1> SUFFICES ASSUME Init PROVE IInv
  OBVIOUS
<1>1. TypeOK
  BY DEF Init, TypeOK, Idle, Statuses, None
<1>2. \A id \in Ids : Filed(id)
  BY DEF Init, Filed
<1>3. SweepNoted /\ DeadOnlyWhenExhausted /\ WaitingIsQueued
  BY DEF Init, SweepNoted, Idle, DeadOnlyWhenExhausted, WaitingIsQueued
<1> QED BY <1>1, <1>2, <1>3 DEF IInv, AdverseInv, OrderlyInv

----------------------------------------------------------------------------
\* The abstract place of a task, as a function of its status.
PlaceByStatus(s) ==
  CASE s = "absent"                  -> "absent"
    [] s \in {"queued", "timed_out"} -> "waiting"
    [] s = "leased"                  -> "leased"
    [] s = "completed"               -> "done"
    [] s = "dead_letter"             -> "dead"

StatusPlace == [id \in Ids |-> PlaceByStatus(status[id])]

\* The containers say what the status says.
LEMMA PlaceIsStatus == TypeOK /\ OrderlyInv => Places = StatusPlace
<1> SUFFICES ASSUME TypeOK, OrderlyInv, NEW id \in Ids PROVE PlaceOf(id) = PlaceByStatus(status[id])
  BY DEF Places, StatusPlace
<1>1. Filed(id) /\ queue[id] \in Nat /\ dead[id] \in Nat
  BY DEF OrderlyInv, TypeOK
<1>2. status[id] \in {"absent", "queued", "timed_out", "leased", "completed", "dead_letter"}
  BY <1>1 DEF Filed
<1> QED BY <1>1, <1>2 DEF Filed, PlaceOf, PlaceByStatus

\* Changing the status of one task moves that task alone.
LEMMA StatusMoves ==
  ASSUME TypeOK, NEW i \in Ids, NEW s, status' = [status EXCEPT ![i] = s]
  PROVE  StatusPlace' = [StatusPlace EXCEPT ![i] = PlaceByStatus(s)]
BY DEF TypeOK, StatusPlace

\* A step of the queue is a step of the abstract queue, or none.
LEMMA StepSimulation ==
  IInv /\ IInv' /\ [Next]_vars => (orderly' => [Abstract!Next]_Places)
<1> SUFFICES ASSUME IInv, IInv', [Next]_vars, orderly' PROVE [Abstract!Next]_Places
  OBVIOUS
<1>1. TypeOK /\ orderly /\ OrderlyInv
  BY OrderlyBefore DEF IInv, AdverseInv
<1>p. (TypeOK /\ OrderlyInv)'
  BY DEF IInv, AdverseInv
<1> DEFINE Moves(i, from, to) ==
      StatusPlace[i] = from /\ StatusPlace' = [StatusPlace EXCEPT ![i] = to]
<1>2. Places = StatusPlace
  BY <1>1, PlaceIsStatus
<1>3. (Places = StatusPlace)'
  BY <1>p, PlaceIsStatus, PTL
<1>4. SUFFICES \/ StatusPlace' = StatusPlace
               \/ \E i \in Ids : \/ Moves(i, "absent", "waiting")
                                 \/ Moves(i, "waiting", "leased")
                                 \/ Moves(i, "leased", "done")
                                 \/ Moves(i, "leased", "waiting")
                                 \/ Moves(i, "leased", "dead")
  BY <1>2, <1>3 DEF Abstract!Next, Abstract!Enqueue, Abstract!Lease, Abstract!Complete,
                    Abstract!Release, Abstract!Bury, Abstract!Move, Places
<1>5. ASSUME NEW i \in Ids, Enqueue(i) PROVE Moves(i, "absent", "waiting")
  BY <1>1, <1>5, StatusMoves DEF Enqueue, StatusPlace, PlaceByStatus
<1>6. ASSUME NEW w \in Workers, NEW i \in Ids, Lease(w, i) PROVE Moves(i, "waiting", "leased")
  <2>1. status[i] \in {"queued", "timed_out"}
    BY <1>1, <1>6 DEF OrderlyInv, Lease, First, Filed
  <2> QED BY <1>1, <1>6, <2>1, StatusMoves DEF Lease, StatusPlace, PlaceByStatus
<1>7. ASSUME NEW w \in Workers, NEW i \in Ids, Replies(w, i) PROVE status[i] = "leased" /\ Known(i)
  <2>1. InTime(w, i)
    BY <1>7, Zenon DEF Replies
  <2> QED BY <1>1, <2>1, QueueAssumption DEF OrderlyInv, InTime, Filed, Known
<1>8. ASSUME NEW w \in Workers, NEW i \in Ids, Ack(w, i) PROVE Moves(i, "leased", "done")
  <2>1. status[i] = "leased" /\ status' = [status EXCEPT ![i] = "completed"]
    BY <1>7, <1>8 DEF Ack
  <2> QED BY <1>1, <2>1, StatusMoves DEF StatusPlace, PlaceByStatus
<1>9. ASSUME NEW w \in Workers, NEW i \in Ids, Nack(w, i)
      PROVE  Moves(i, "leased", "waiting") \/ Moves(i, "leased", "dead")
  <2>1. status[i] = "leased" /\ Known(i)
    BY <1>7, <1>9 DEF Nack
  <2>2. \/ status' = [status EXCEPT ![i] = "queued"]
        \/ status' = [status EXCEPT ![i] = "dead_letter"]
    BY <1>9, <2>1 DEF Nack
  <2> QED BY <1>1, <2>1, <2>2, StatusMoves DEF StatusPlace, PlaceByStatus
<1>10. ASSUME NEW i \in Ids, SweepRequeues(i) PROVE Moves(i, "leased", "waiting")
  <2>1. status[i] = "leased" /\ status' = [status EXCEPT ![i] = "timed_out"]
    BY <1>1, <1>10 DEF OrderlyInv, TypeOK, SweepRequeues, SweepNoted
  <2> QED BY <1>1, <2>1, StatusMoves DEF StatusPlace, PlaceByStatus
<1>11. ASSUME status' = status PROVE StatusPlace' = StatusPlace
  BY <1>11 DEF StatusPlace
<1>12. ~Restart
  BY DEF Restart
<1>13. CASE \/ \E i \in Ids : LeaseExpires(i)
            \/ \E w \in Workers : WorkerDies(w)
            \/ SweepBegins \/ SweepEnds \/ UNCHANGED vars
  BY <1>11, <1>13 DEF LeaseExpires, WorkerDies, SweepBegins, SweepEnds, vars
<1> HIDE DEF Moves
<1> QED BY <1>5, <1>6, <1>8, <1>9, <1>10, <1>12, <1>13 DEF Next

----------------------------------------------------------------------------
(***************************************************************************)
(* The theorems                                                            *)
(***************************************************************************)
\* The invariant holds throughout every behaviour of the queue.
THEOREM Invariance == Spec => []IInv
  BY Initially, Inductive, PTL DEF Spec

\* DurableTaskQueue implements LeaseQueue for as long as workers reply in
\* time, no sweep is overtaken and the process lives: no task is lost, handed
\* to two workers, or handed out after its end.
THEOREM ImplementsLeaseQueue == Spec => KeepsPromise
<1>1. Init => Abstract!Init
  BY DEF Init, Abstract!Init, Places, PlaceOf
<1>2. IInv /\ IInv' /\ [Next]_vars => [orderly' => [Abstract!Next]_Places]_vars
  BY StepSimulation
<1> QED BY <1>1, <1>2, Invariance, PTL DEF Spec, KeepsPromise

\* In an orderly history a lease stays in _leased while the task is leased.
THEOREM LeasesStay == Spec => []LeasesAreKept
<1>1. IInv => LeasesAreKept
  BY DEF IInv, OrderlyInv, Filed, LeasesAreKept
<1> QED BY <1>1, Invariance, PTL

\* A task that says it waits can be leased, whatever late replies, overtaken
\* sweeps and restarts do to the containers.
THEOREM WaitingStaysQueued == Spec => []WaitingIsQueued
<1>1. IInv => WaitingIsQueued
  BY DEF IInv, AdverseInv
<1> QED BY <1>1, Invariance, PTL

\* nack buries a task only when its attempts are used up, whatever happens.
THEOREM BuriedWhenExhausted == Spec => []DeadOnlyWhenExhausted
<1>1. IInv => DeadOnlyWhenExhausted
  BY DEF IInv, AdverseInv
<1> QED BY <1>1, Invariance, PTL
=============================================================================
