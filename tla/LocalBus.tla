------------------------------ MODULE LocalBus ------------------------------
(***************************************************************************)
(* LocalBus (adapters/bus/local.py), the in-process event bus, for one     *)
(* topic: a bounded queue of deliveries, a pool of workers that take them, *)
(* and the events published before start().                                *)
(*                                                                         *)
(* A delivery is a handler and an event.  A publication puts one delivery  *)
(* for each subscribed handler; it runs on without a break until the queue *)
(* is full, and then waits in put().  A handler may itself publish (a      *)
(* relay), in which case it is a worker that waits.  The lock is never     *)
(* held across an await, so it takes no part.                              *)
(***************************************************************************)
EXTENDS Integers, Sequences, FiniteSets

CONSTANTS
  Handlers,     \* handlers that may subscribe
  Relays,       \* those that publish an event for each one they handle
  Clients,      \* tasks that publish, one event after the other
  Capacity,     \* queue_capacity
  WorkerCount,  \* worker_count
  MaxEvents,    \* bound: events published
  MaxStarts     \* bound: calls of start() that start the bus

ASSUME BusAssumption ==
  /\ Relays \subseteq Handlers
  /\ {Capacity, WorkerCount} \subseteq Nat \ {0} /\ {MaxEvents, MaxStarts} \subseteq Nat

VARIABLES
  started,   \* _started
  starts,    \* how often the bus was started
  stopping,  \* what stop() waits for, or "no"
  subs,      \* the handlers of the topic, in order of subscription
  pending,   \* _pending
  qid,       \* the number of the start() that made _queue, or 0 for None
  queue,     \* the deliveries in it
  listed,    \* the workers in _workers
  workers,   \* the workers and the tasks of single deliveries, as created
  puts,      \* puts[c]: what client c, or start(), still has to put
  events,    \* history: events[e] is the client whose event e was dispatched
             \* at once, or None
  due,       \* history: the deliveries that dispatches have decided on
  begun,     \* history: the deliveries that reached their handlers
  stopped,   \* history: stop() was called
  raced      \* history: start() was called while stop() was under way

vars == <<started, starts, stopping, subs, pending, qid, queue, listed, workers,
          puts, events, due, begun, stopped, raced>>

None == "none"
Flush == "start"
ASSUME FlushAssumption == Flush \notin Clients
Delivery == Handlers \X (1..MaxEvents)

\* What is left of a dispatch: the deliveries of the event at hand, the
\* events after it, and the queue in whose put() it waits.
Nothing == [rest |-> <<>>, then |-> <<>>, q |-> 0]
Put == [rest : Seq(Delivery), then : Seq(1..MaxEvents), q : 0..MaxStarts]

\* get: waits for a delivery; new: a task not yet run; run: in the handler;
\* relayed: in the handler, during or after its publication; end: ended.
WorkerState == {"get", "new", "run", "relayed", "end"}
Worker(pc, d, q) == [pc |-> pc, item |-> d, put |-> Nothing, q |-> q, cancelled |-> FALSE]
NoItem == <<>>
Gone == Worker("end", NoItem, 0)

TypeOK ==
  /\ started \in BOOLEAN /\ starts \in 0..MaxStarts
  /\ stopping \in {"no", "drain", "gather", "tasks"}
  /\ subs \in Seq(Handlers) /\ pending \in Seq(1..MaxEvents)
  /\ qid \in 0..MaxStarts
  /\ queue \in Seq(Delivery) /\ Len(queue) <= Capacity
  /\ workers \in Seq([pc : WorkerState, item : Delivery \union {NoItem}, put : Put,
                      q : 0..MaxStarts, cancelled : BOOLEAN])
  /\ listed \subseteq DOMAIN workers
  /\ puts \in [Clients \union {Flush} -> Put]
  /\ events \in Seq(Clients \union {None}) /\ Len(events) <= MaxEvents
  /\ due \subseteq Delivery /\ begun \subseteq due
  /\ stopped \in BOOLEAN /\ raced \in BOOLEAN

Init ==
  /\ started = FALSE /\ starts = 0 /\ stopping = "no"
  /\ subs = <<>> /\ pending = <<>>
  /\ qid = 0 /\ queue = <<>>
  /\ listed = {} /\ workers = <<>>
  /\ puts = [c \in Clients \union {Flush} |-> Nothing]
  /\ events = <<>> /\ due = {} /\ begun = {} /\ stopped = FALSE /\ raced = FALSE

-----------------------------------------------------------------------------
(* _dispatch. *)

Set(s) == {s[i] : i \in DOMAIN s}

\* The deliveries of a sequence of events to the present subscribers.
Deliveries(es) ==
  [j \in 1..(Len(es) * Len(subs)) |->
     <<subs[((j - 1) % Len(subs)) + 1], es[((j - 1) \div Len(subs)) + 1]>>]

\* The deliveries of p, in order, that fit into the queue.
Fitting(p) ==
  LET all == p.rest \o Deliveries(p.then)
      room == Capacity - Len(queue)
  IN SubSeq(all, 1, IF Len(all) <= room THEN Len(all) ELSE room)

\* Mutant: the event that is cut off is begun again.
LeftAgain(p, q) ==
  LET k == Len(subs)
      m == Len(Fitting(p)) - Len(p.rest)
      e == (m \div k) + 1
  IN IF m = Len(p.then) * k THEN Nothing
     ELSE IF m < 0
     THEN [p EXCEPT !.rest = SubSeq(@, Len(Fitting(p)) + 1, Len(@)), !.q = q]
     ELSE [rest |-> Deliveries(<<p.then[e]>>),
           then |-> SubSeq(p.then, e + 1, Len(p.then)), q |-> q]

\* What is left of p, to be put into queue q: of the event that is cut off,
\* the deliveries to the handlers it found; of the later ones, the events.
Left(p, q) ==
  LET k == Len(subs)
      m == Len(Fitting(p)) - Len(p.rest)
      e == (m \div k) + 1
  IN IF m = Len(p.then) * k THEN Nothing
     ELSE IF m < 0
     THEN [p EXCEPT !.rest = SubSeq(@, Len(Fitting(p)) + 1, Len(@)), !.q = q]
     ELSE [rest |-> SubSeq(Deliveries(<<p.then[e]>>), (m % k) + 1, k),
           then |-> SubSeq(p.then, e + 1, Len(p.then)), q |-> q]

\* p is put into the queue as far as it goes.
Feed(p) ==
  /\ queue' = queue \o Fitting(p)
  /\ due' = due \union Set(Fitting(p)) \union Set(Left(p, qid).rest)

-----------------------------------------------------------------------------
(* Subscriptions, start and stop. *)

BusFrame == UNCHANGED <<started, starts, stopping, subs, qid, listed, stopped, raced>>

Subscribe(h) ==
  /\ h \notin Set(subs)
  /\ subs' = Append(subs, h)
  /\ UNCHANGED <<started, starts, stopping, pending, qid, queue, listed, workers,
                 puts, events, due, begun, stopped, raced>>

\* Deliveries already put are made all the same.
Unsubscribe(h) ==
  /\ \E i \in DOMAIN subs :
       subs[i] = h /\ subs' = SubSeq(subs, 1, i - 1) \o SubSeq(subs, i + 1, Len(subs))
  /\ UNCHANGED <<started, starts, stopping, pending, qid, queue, listed, workers,
                 puts, events, due, begun, stopped, raced>>

\* A queue that a stop() under way still waits for is used on.
Start ==
  LET p == [Nothing EXCEPT !.then = pending]
      new == [i \in 1..WorkerCount |-> Worker("get", NoItem, qid')]
  IN
  /\ ~started /\ starts < MaxStarts
  /\ puts[Flush] = Nothing \/ puts[Flush].q # qid
  /\ started' = TRUE /\ starts' = starts + 1
  /\ raced' = (raced \/ stopping # "no")
  /\ qid' = IF qid = 0 THEN starts + 1 ELSE qid
  /\ workers' = workers \o new
  /\ listed' = DOMAIN workers' \ DOMAIN workers
  /\ pending' = <<>>
  /\ Feed(p)
  /\ puts' = [puts EXCEPT ![Flush] = Left(p, qid')]
  /\ UNCHANGED <<stopping, subs, events, begun, stopped>>

StopBegins ==
  /\ started /\ stopping = "no"
  /\ started' = FALSE /\ pending' = <<>> /\ stopped' = TRUE
  /\ stopping' = IF qid # 0 THEN "drain" ELSE "tasks"
  /\ UNCHANGED <<starts, subs, qid, queue, listed, workers, puts, events, due, begun, raced>>

\* Mutant: the workers are not cancelled.
StopForgets ==
  /\ stopping = "drain"
  /\ stopping' = "gather"
  /\ UNCHANGED <<started, starts, subs, pending, qid, queue, listed, workers, puts, events,
                 due, begun, stopped, raced>>

\* The queue is drained, or the timeout of the join has passed.
StopCancels ==
  /\ stopping = "drain"
  /\ stopping' = "gather"
  /\ workers' = [i \in DOMAIN workers |->
                   [workers[i] EXCEPT !.cancelled = @ \/ (i \in listed /\ workers[i].pc # "end")]]
  /\ UNCHANGED <<started, starts, subs, pending, qid, queue, listed, puts, events, due,
                 begun, stopped, raced>>

\* The cancelled workers have ended; the queue goes with what is left in it.
StopCloses ==
  /\ stopping = "gather"
  /\ \A i \in DOMAIN workers : workers[i].cancelled => workers[i].pc = "end"
  /\ listed' = {} /\ qid' = 0 /\ queue' = <<>>
  /\ stopping' = "tasks"
  /\ UNCHANGED <<started, starts, subs, pending, workers, puts, events, due, begun,
                 stopped, raced>>

\* The tasks of single deliveries have ended.
Single(w) == w.q = 0
StopReturns ==
  /\ stopping = "tasks"
  /\ \A i \in DOMAIN workers : Single(workers[i]) => workers[i].pc = "end"
  /\ stopping' = "no"
  /\ UNCHANGED <<started, starts, subs, pending, qid, queue, listed, workers, puts,
                 events, due, begun, stopped, raced>>

-----------------------------------------------------------------------------
(* publish. *)

\* The next event, of client by if it is dispatched at once.
Numbered(by) ==
  /\ Len(events) < MaxEvents
  /\ events' = Append(events, IF started /\ qid # 0 THEN by ELSE None)

Fresh == [Nothing EXCEPT !.then = <<Len(events) + 1>>]

\* Before start() the event is kept; without a queue every handler gets a
\* task of its own.
Buffered == pending' = Append(pending, Len(events) + 1)
Tasks == [j \in DOMAIN Deliveries(Fresh.then) |-> Worker("new", Deliveries(Fresh.then)[j], 0)]

\* Mutant: what does not fit is not waited for but given to tasks.
PublishSpills(c) ==
  LET spilt == Left(Fresh, qid).rest IN
  /\ Numbered(c) /\ started /\ qid # 0 /\ Feed(Fresh)
  /\ workers' = workers \o [j \in DOMAIN spilt |-> Worker("new", spilt[j], 0)]
  /\ UNCHANGED <<pending, puts, begun>> /\ BusFrame

Publish(c) ==
  /\ puts[c] = Nothing /\ Numbered(c)
  /\ \/ /\ ~started /\ Buffered
        /\ UNCHANGED <<queue, workers, puts, due>>
     \/ /\ started /\ qid # 0
        /\ Feed(Fresh) /\ puts' = [puts EXCEPT ![c] = Left(Fresh, qid)]
        /\ UNCHANGED <<pending, workers>>
     \/ /\ started /\ qid = 0
        /\ workers' = workers \o Tasks
        /\ due' = due \union Set(Deliveries(Fresh.then))
        /\ UNCHANGED <<pending, queue, puts>>
  /\ UNCHANGED begun /\ BusFrame

\* put() finds room in the queue it waits for.
PutResumes(c) ==
  /\ puts[c] # Nothing /\ puts[c].q = qid /\ Len(queue) < Capacity
  /\ Feed(puts[c]) /\ puts' = [puts EXCEPT ![c] = Left(puts[c], qid)]
  /\ UNCHANGED <<pending, workers, events, begun>> /\ BusFrame

-----------------------------------------------------------------------------
(* The workers. *)

\* Worker i, not cancelled and not in put(), goes on from pc.
GoesOn(i, pc) ==
  workers[i].pc = pc /\ ~workers[i].cancelled /\ workers[i].put = Nothing

WorkerGets(i) ==
  /\ GoesOn(i, "get") /\ workers[i].q = qid /\ queue # <<>>
  /\ queue' = Tail(queue)
  /\ workers' = [workers EXCEPT ![i].pc = "run", ![i].item = Head(queue)]
  /\ begun' = begun \union {Head(queue)}
  /\ UNCHANGED <<pending, puts, events, due>> /\ BusFrame

TaskRuns(i) ==
  /\ GoesOn(i, "new")
  /\ workers' = [workers EXCEPT ![i].pc = "run"]
  /\ begun' = begun \union {workers[i].item}
  /\ UNCHANGED <<pending, queue, puts, events, due>> /\ BusFrame

\* The handler publishes.
Relay(i) ==
  /\ GoesOn(i, "run") /\ workers[i].item[1] \in Relays /\ Numbered(None)
  /\ \/ /\ ~started /\ Buffered
        /\ workers' = [workers EXCEPT ![i].pc = "relayed"]
        /\ UNCHANGED <<queue, due>>
     \/ /\ started /\ qid # 0
        /\ Feed(Fresh)
        /\ workers' = [workers EXCEPT ![i].pc = "relayed", ![i].put = Left(Fresh, qid)]
        /\ UNCHANGED pending
     \/ /\ started /\ qid = 0
        /\ workers' = [workers EXCEPT ![i].pc = "relayed"] \o Tasks
        /\ due' = due \union Set(Deliveries(Fresh.then))
        /\ UNCHANGED <<pending, queue>>
  /\ UNCHANGED <<puts, begun>> /\ BusFrame

RelayResumes(i) ==
  LET p == workers[i].put IN
  /\ p # Nothing /\ ~workers[i].cancelled /\ p.q = qid /\ Len(queue) < Capacity
  /\ Feed(p) /\ workers' = [workers EXCEPT ![i].put = Left(p, qid)]
  /\ UNCHANGED <<pending, puts, events, begun>> /\ BusFrame

\* Mutant: the worker ends with its first handler.
HandlerEndsWorker(i) ==
  /\ GoesOn(i, "run") \/ GoesOn(i, "relayed")
  /\ workers' = [workers EXCEPT ![i] = Gone]
  /\ UNCHANGED <<pending, queue, puts, events, due, begun>> /\ BusFrame

\* The handler returns or raises.  A worker takes the next delivery from
\* what _queue now is; task_done() raises on a queue that is gone, and may
\* on one the delivery was not taken from.
HandlerEnds(i) ==
  /\ GoesOn(i, "run") \/ GoesOn(i, "relayed")
  /\ \/ /\ ~Single(workers[i]) /\ qid # 0
        /\ workers' = [workers EXCEPT ![i].pc = "get", ![i].item = NoItem, ![i].q = qid]
     \/ /\ Single(workers[i]) \/ workers[i].q # qid
        /\ workers' = [workers EXCEPT ![i] = Gone]
  /\ UNCHANGED <<pending, queue, puts, events, due, begun>> /\ BusFrame

WorkerCancelled(i) ==
  /\ workers[i].cancelled /\ workers[i].pc # "end"
  /\ workers' = [workers EXCEPT ![i] = Gone]
  /\ UNCHANGED <<pending, queue, puts, events, due, begun>> /\ BusFrame

WorkerSteps(i) ==
  \/ WorkerGets(i) \/ TaskRuns(i) \/ Relay(i) \/ RelayResumes(i) \/ HandlerEnds(i)
  \/ WorkerCancelled(i)

Next ==
  \/ \E h \in Handlers : Subscribe(h) \/ Unsubscribe(h)
  \/ Start \/ StopBegins \/ StopCancels \/ StopCloses \/ StopReturns
  \/ \E c \in Clients : Publish(c)
  \/ \E c \in Clients \union {Flush} : PutResumes(c)
  \/ \E i \in DOMAIN workers : WorkerSteps(i)

Spec == Init /\ [][Next]_vars

\* The event loop runs the tasks that are not waiting, and handlers end.
FairSpec ==
  /\ Spec
  /\ WF_vars(\/ \E c \in Clients \union {Flush} : PutResumes(c)
             \/ \E i \in DOMAIN workers : WorkerSteps(i))

-----------------------------------------------------------------------------
(* Properties. *)

\* Where a delivery is.
Places(d) ==
  {<<"begun", 1>> : x \in {d} \intersect begun}
    \union {<<"queue", j>> : j \in {k \in DOMAIN queue : queue[k] = d}}
    \union {<<"task", i>> : i \in {k \in DOMAIN workers : workers[k].pc = "new" /\ workers[k].item = d}}
    \union {<<"put", c>> : c \in {b \in DOMAIN puts : d \in Set(puts[b].rest)}}
    \union {<<"relay", i>> : i \in {k \in DOMAIN workers : d \in Set(workers[k].put.rest)}}

\* A delivery that was decided on is waiting in one place or has reached its
\* handler, once; only stop() makes deliveries disappear.
DeliveredOnce ==
  \A d \in due : /\ Cardinality(Places(d)) <= 1
                 /\ ~stopped => Cardinality(Places(d)) = 1

\* The events that one client publishes on a running bus reach every handler
\* in the order of their publication.
InOrder ==
  [][\A d \in begun' \ begun, b \in due :
       (/\ ~stopped' /\ b[1] = d[1] /\ b[2] < d[2]
        /\ events[b[2]] # None /\ events[b[2]] = events[d[2]])
         => b \in begun]_vars

\* All workers are in handlers that wait for room in the full queue.
Stalled ==
  /\ Len(queue) = Capacity
  /\ \A i \in listed : workers[i].put # Nothing

\* On a bus that is not stopped all deliveries reach their handlers, unless
\* all workers wait for each other.
Delivered == []<>(due \subseteq begun \/ stopped \/ Stalled)

\* A running bus has its workers, a stopped one has none left, unless start()
\* overtook stop().
PoolMatches ==
  (stopping = "no" /\ ~raced)
    => {i \in DOMAIN workers : workers[i].pc # "end"} = listed
       /\ Cardinality(listed) = IF started THEN WorkerCount ELSE 0
=============================================================================
