-------------------------- MODULE RequestScheduler --------------------------
(***************************************************************************)
(* SchedulerEngineImpl (core/omniroute/scheduler.py): the three queues and *)
(* the worker slots behind enqueue(), dequeue() and cancel().  Every       *)
(* operation runs under one asyncio.Lock, so it is one step.  The deadline *)
(* queue is the array heapq works on.  All group weights are 1.0 (nobody   *)
(* sets another), so pop_wrr is pop_rr; the round-robin position is left   *)
(* open.  Back-pressure, starvation, retry plans and statistics only feed  *)
(* reports and are left out.                                               *)
(***************************************************************************)
EXTENDS Integers, Sequences, FiniteSets, SequencesExt

CONSTANTS
  Algorithms,   \* the algorithms the scheduler may be built with
  Groups,       \* queue_affinity or provider
  NoGroup,      \* both are empty
  Levels,       \* PriorityLevel, 1 the highest
  Delays,       \* deadline_s of requests that have one
  MaxQueue,     \* max_queue_depth
  WorkerPool,   \* worker_pool
  MaxItems,     \* bound: requests enqueued
  MaxTime       \* bound: the clock

NoDeadline == -1
Forever == MaxTime + 1 + Max(Delays \union {0})   \* float("inf")
Items == 1..MaxItems
AnyGroup == Groups \union {NoGroup}

ASSUME SchedulerAssumption == /\ Delays \subseteq Nat /\ IsFiniteSet(Delays)
                              /\ MaxQueue \in Nat /\ WorkerPool \in Nat
                              /\ MaxItems \in Nat /\ MaxTime \in Nat
                              /\ NoGroup \notin Groups

VARIABLES
  schedulerUp,  \* _running
  paused,       \* _paused
  algorithm,    \* _scheduler_policy.algorithm
  now,          \* the clock
  edf,          \* _EDFQueue._heap: the array of [deadline, item]
  fair,         \* _WeightedFairQueue._queues
  deficit,      \* _FairnessTracker.deficit of each group
  fifo,         \* _PriorityQueueManager._queues
  acquired,     \* _WorkerAllocator._acquired
  deadlines,    \* deadline_ms of each request, wherever it is queued
  fate          \* history: what became of each request

schedulerVars == <<schedulerUp, paused, algorithm, now, edf, fair, deficit, fifo,
                   acquired, deadlines, fate>>

SchedulerTypeOK ==
  /\ schedulerUp \in BOOLEAN /\ paused \in BOOLEAN
  /\ algorithm \in Algorithms
  /\ now \in 0..MaxTime
  /\ edf \in Seq([deadline : Nat, item : Items])
  /\ fair \in [AnyGroup -> Seq(Items)]
  /\ deficit \in [AnyGroup -> Nat]
  /\ fifo \in [Levels -> Seq(Items)]
  /\ acquired \in 0..WorkerPool
  /\ deadlines \in [Items -> Nat]
  /\ fate \in [Items -> {"new", "queued", "dispatched", "cancelled", "expired", "cleared"}]

SchedulerInit ==
  /\ schedulerUp = FALSE
  /\ paused = FALSE
  /\ algorithm \in Algorithms
  /\ now = 0
  /\ edf = <<>>
  /\ fair = [g \in AnyGroup |-> <<>>]
  /\ deficit = [g \in AnyGroup |-> 0]
  /\ fifo = [l \in Levels |-> <<>>]
  /\ acquired = 0
  /\ deadlines = [i \in Items |-> Forever]
  /\ fate = [i \in Items |-> "new"]

----------------------------------------------------------------------------
(***************************************************************************)
(* The deadline heap.  Entries compare by deadline, then by the push       *)
(* counter, which grows with the item number.                              *)
(***************************************************************************)
Entry == [deadline : Nat, item : Items]
Before(a, b) == a.deadline < b.deadline \/ (a.deadline = b.deadline /\ a.item < b.item)
Exchange(h, j, k) == [h EXCEPT ![j] = h[k], ![k] = h[j]]

\* An array and a place in it.
Position == {p \in [heap : Seq(Entry), at : Nat] : p.at \in 1..Len(p.heap)}
At(h, k) == [heap |-> h, at |-> k]

\* heapq._siftdown: the entry at k rises to its place.
Raise[p \in Position] ==
  LET h == p.heap
      k == p.at
  IN IF k > 1 /\ Before(h[k], h[k \div 2])
     THEN Raise[At(Exchange(h, k, k \div 2), k \div 2)] ELSE h

\* The smaller child of k.
Child(h, k) ==
  IF 2 * k < Len(h) /\ ~Before(h[2 * k], h[2 * k + 1]) THEN 2 * k + 1 ELSE 2 * k

\* heapq._siftup: the smaller child moves up down to a leaf, where the entry then rises.
Sink[p \in Position] ==
  LET h == p.heap
      k == p.at
  IN IF 2 * k > Len(h) THEN Raise[p]
     ELSE Sink[At(Exchange(h, k, Child(h, k)), Child(h, k))]

HeapPush(h, e) == Raise[At(Append(h, e), Len(h) + 1)]

\* The last entry takes the place of the first, and sinks.
HeapPop(h) ==
  IF Len(h) = 1 THEN <<>> ELSE Sink[At([Front(h) EXCEPT ![1] = Last(h)], 1)]

\* Mutant: the root is looked at once.
ExpireOne(h) == IF h # <<>> /\ h[1].deadline <= now THEN HeapPop(h) ELSE h

\* _EDFQueue.expired: pops while the root's deadline has passed.
PopsUntil(t) ==
  LET pops[h \in Seq(Entry)] ==
        IF h # <<>> /\ h[1].deadline <= t THEN pops[HeapPop(h)] ELSE h
  IN pops

Expire(h) == PopsUntil(now)[h]

----------------------------------------------------------------------------
(***************************************************************************)
(* enqueue()                                                               *)
(***************************************************************************)
\* The queue the algorithm puts a request into.
QueueFor(delay, group) ==
  CASE algorithm = "edf" -> "edf"
    [] algorithm = "fair" -> "fair"
    [] algorithm \in {"fifo", "priority"} -> "fifo"
    [] OTHER -> IF delay # NoDeadline THEN "edf"
                ELSE IF group # NoGroup THEN "fair" ELSE "fifo"

\* deadline_ms: a deadline of zero seconds counts as none.
DeadlineOf(delay) == IF delay > 0 THEN now + delay ELSE Forever

FifoDepth == Cardinality(UNION {{l} \X DOMAIN fifo[l] : l \in Levels})

\* A refused request (not running, paused, queue full) changes nothing.
Enqueue(i, delay, group, level) ==
  /\ schedulerUp /\ ~paused
  /\ fate[i] = "new" /\ \A j \in 1..(i - 1) : fate[j] # "new"
  /\ \/ /\ QueueFor(delay, group) = "edf"
        /\ edf' = HeapPush(edf, [deadline |-> DeadlineOf(delay), item |-> i])
        /\ UNCHANGED <<fair, fifo>>
     \/ /\ QueueFor(delay, group) = "fair"
        /\ fair' = [fair EXCEPT ![group] = Append(@, i)]
        /\ UNCHANGED <<edf, fifo>>
     \/ /\ QueueFor(delay, group) = "fifo"
        /\ FifoDepth < MaxQueue
        /\ fifo' = [fifo EXCEPT ![level] = Append(@, i)]
        /\ UNCHANGED <<edf, fair>>
  /\ deadlines' = [deadlines EXCEPT ![i] = DeadlineOf(delay)]
  /\ fate' = [fate EXCEPT ![i] = "queued"]
  /\ UNCHANGED <<schedulerUp, paused, algorithm, now, deficit, acquired>>

----------------------------------------------------------------------------
(***************************************************************************)
(* dequeue()                                                               *)
(***************************************************************************)
FairWaiting == {g \in AnyGroup : fair[g] # <<>>}
FifoWaiting == {l \in Levels : fifo[l] # <<>>}

\* The queues dequeue() asks, in order; "priority" takes the hybrid's branch.
Sources == CASE algorithm = "edf" -> <<"edf">>
             [] algorithm = "fifo" -> <<"fifo">>
             [] algorithm \in {"fair", "wrr", "rr"} -> <<"fair">>
             [] OTHER -> <<"edf", "fair", "fifo">>

HasEntry(source, heap) ==
  CASE source = "edf" -> heap # <<>>
    [] source = "fair" -> FairWaiting # {}
    [] source = "fifo" -> FifoWaiting # {}

FirstWithEntry(source, heap) ==
  \E k \in DOMAIN Sources :
    /\ Sources[k] = source /\ HasEntry(source, heap)
    /\ \A j \in 1..(k - 1) : ~HasEntry(Sources[j], heap)

\* pop_wfq takes a group with the least deficit, pop_rr the next in turn.
NextGroups ==
  IF algorithm \in {"wrr", "rr"} THEN FairWaiting
  ELSE {g \in FairWaiting : \A h \in FairWaiting : deficit[g] <= deficit[h]}

\* The fates after a dequeue: heap is what expired() left, item what was handed out.
FatesAfter(heap, handedOut) ==
  [i \in Items |->
     IF i \in handedOut THEN "dispatched"
     ELSE IF (\E k \in 1..Len(edf) : edf[k].item = i) /\ ~\E k \in 1..Len(heap) : heap[k].item = i
          THEN "expired" ELSE fate[i]]

PopEdf(heap) ==
  /\ edf' = HeapPop(heap)
  /\ fate' = FatesAfter(heap, {heap[1].item})
  /\ UNCHANGED <<fair, deficit, fifo>>

PopFair(heap, g) ==
  /\ edf' = heap
  /\ fair' = [fair EXCEPT ![g] = Tail(@)]
  /\ deficit' = IF algorithm \in {"wrr", "rr"} THEN deficit ELSE [deficit EXCEPT ![g] = @ + 1]
  /\ fate' = FatesAfter(heap, {Head(fair[g])})
  /\ UNCHANGED fifo

PopFifo(heap, l) ==
  /\ edf' = heap
  /\ fifo' = [fifo EXCEPT ![l] = Tail(@)]
  /\ fate' = FatesAfter(heap, {Head(fifo[l])})
  /\ UNCHANGED <<fair, deficit>>

\* A dispatch takes a worker slot, and nothing gives it back.
Dequeue ==
  LET heap == Expire(edf) IN
     /\ schedulerUp /\ ~paused
     /\ \/ /\ acquired < WorkerPool
           /\ acquired' = acquired + 1
           /\ \/ FirstWithEntry("edf", heap) /\ PopEdf(heap)
              \/ FirstWithEntry("fair", heap) /\ \E g \in NextGroups : PopFair(heap, g)
              \/ FirstWithEntry("fifo", heap) /\ \E l \in FifoWaiting :
                                                   /\ \A m \in FifoWaiting : l <= m
                                                   /\ PopFifo(heap, l)
        \/ /\ \/ acquired >= WorkerPool
              \/ \A k \in DOMAIN Sources : ~HasEntry(Sources[k], heap)
           /\ edf' = heap
           /\ fate' = FatesAfter(heap, {})
           /\ UNCHANGED <<fair, deficit, fifo, acquired>>
     /\ UNCHANGED <<schedulerUp, paused, algorithm, now, deadlines>>

----------------------------------------------------------------------------
(***************************************************************************)
(* cancel(), start(), stop(), pause(), resume(), the clock                 *)
(***************************************************************************)
InEdf(i) == \E k \in DOMAIN edf : edf[k].item = i
InFair(i) == \E g \in AnyGroup : Contains(fair[g], i)
InFifo(i) == \E l \in Levels : Contains(fifo[l], i)

\* del q[i]
DropFifo(i) ==
  /\ \E l \in Levels : \E k \in DOMAIN fifo[l] :
       fifo[l][k] = i /\ fifo' = [fifo EXCEPT ![l] = RemoveAt(@, k)]
  /\ UNCHANGED <<edf, fair>>

\* Mutant: the entry stays in the fair queue.
DropNothing(i) == InFair(i) /\ UNCHANGED <<edf, fair, fifo>>

DropFair(i) ==
  /\ \E g \in AnyGroup : \E k \in DOMAIN fair[g] :
       fair[g][k] = i /\ fair' = [fair EXCEPT ![g] = RemoveAt(@, k)]
  /\ UNCHANGED <<edf, fifo>>

\* _EDFQueue.remove: the array without the entry, in the order it had.
HeapRemove(i) ==
  /\ \E k \in DOMAIN edf : edf[k].item = i /\ edf' = RemoveAt(edf, k)
  /\ UNCHANGED <<fair, fifo>>

\* The queues are searched one after the other.
CancelRequest(i) ==
  /\ \/ DropFifo(i)
     \/ ~InFifo(i) /\ HeapRemove(i)
     \/ ~InFifo(i) /\ ~InEdf(i) /\ DropFair(i)
  /\ fate' = [fate EXCEPT ![i] = "cancelled"]
  /\ UNCHANGED <<schedulerUp, paused, algorithm, now, deficit, acquired, deadlines>>

SchedulerStart ==
  /\ ~schedulerUp
  /\ schedulerUp' = TRUE
  /\ paused' = FALSE
  /\ UNCHANGED <<algorithm, now, edf, fair, deficit, fifo, acquired, deadlines, fate>>

\* The queues are emptied; the slots stay acquired.
SchedulerStop ==
  /\ schedulerUp
  /\ schedulerUp' = FALSE
  /\ paused' = FALSE
  /\ edf' = <<>>
  /\ fair' = [g \in AnyGroup |-> <<>>]
  /\ deficit' = [g \in AnyGroup |-> 0]
  /\ fifo' = [l \in Levels |-> <<>>]
  /\ fate' = [i \in Items |-> IF fate[i] = "queued" THEN "cleared" ELSE fate[i]]
  /\ UNCHANGED <<algorithm, now, acquired, deadlines>>

\* pause() and resume(), which do not ask whether the engine runs.
SetPaused(value) ==
  /\ paused # value
  /\ paused' = value
  /\ UNCHANGED <<schedulerUp, algorithm, now, edf, fair, deficit, fifo, acquired, deadlines, fate>>

ClockTick ==
  /\ now < MaxTime
  /\ now' = now + 1
  /\ UNCHANGED <<schedulerUp, paused, algorithm, edf, fair, deficit, fifo, acquired, deadlines, fate>>

SchedulerNext ==
  \/ SchedulerStart
  \/ SchedulerStop
  \/ \E value \in BOOLEAN : SetPaused(value)
  \/ \E i \in Items, delay \in Delays \union {NoDeadline}, g \in AnyGroup, l \in Levels :
       Enqueue(i, delay, g, l)
  \/ Dequeue
  \/ \E i \in Items : CancelRequest(i)
  \/ ClockTick

SchedulerSpec == SchedulerInit /\ [][SchedulerNext]_schedulerVars
----------------------------------------------------------------------------
(***************************************************************************)
(* Properties                                                              *)
(***************************************************************************)
Places(i) ==
  {<<"edf", k>> : k \in {j \in DOMAIN edf : edf[j].item = i}}
    \union (UNION {{<<"fair", g, k>> : k \in {j \in DOMAIN fair[g] : fair[g][j] = i}} : g \in AnyGroup})
    \union (UNION {{<<"fifo", l, k>> : k \in {j \in DOMAIN fifo[l] : fifo[l][j] = i}} : l \in Levels})

\* A request waits in exactly one place until one thing happens to it: what was
\* dispatched, cancelled, expired or cleared by stop() is in none of the queues,
\* so no later dequeue() can hand it out, whatever the algorithm.
WaitsInOnePlace ==
  \A i \in Items : Cardinality(Places(i)) = (IF fate[i] = "queued" THEN 1 ELSE 0)

\* The algorithms that put every request with a deadline into the deadline queue.
\* The others queue it with the rest and never look at its deadline again.
KeepsDeadlines == algorithm \notin {"fair", "fifo", "priority"}

\* Under these algorithms no request, wherever it waits, is dispatched once its
\* deadline has passed, even when cancel() has left the heap array out of order.
\* Under fair, fifo and priority requests are dispatched after their deadline.
DeadlinesKept ==
  [][KeepsDeadlines =>
       \A i \in Items : fate[i] # "dispatched" /\ fate'[i] = "dispatched" => deadlines[i] > now]_schedulerVars
=============================================================================
